---- MODULE Spec2Model ----
(***************************************************************************)
(* Construction-management backend (FastAPI over MongoDB): the user store, *)
(* the bearer-token layer (login, check_user_role, get_current_user), and  *)
(* the project / expense handlers that the role and ownership rules guard. *)
(* Every handler is one action; the register and create-staff handlers are *)
(* also given as two steps (username lookup, insert) for the interleavings *)
(* of concurrent requests.  The site part adds inventory, material usage,  *)
(* inventory requests, notifications, progress reports and the project     *)
(* summary, with the handlers that await twice split at their awaits.      *)
(***************************************************************************)
EXTENDS Integers, Sequences, FiniteSets, TLC

\* ---------------------------------------------------------------- bounds
MaxUsers == 4
AuthUsers == 2
MaxTokens == 1
MaxTicks == 3
MaxProjects == 2
MaxExpenses == 1
MaxPwUpdates == 2
NProcs == 2
MaxRequests == 2
MaxReports == 2
MaxItems == 2
MaxDocs == 2
MaxFiles == 2

\* ------------------------------------------------------- program constants
ACCESS_TOKEN_EXPIRE_MINUTES == 60 * 24
SECRET_KEY == "JWT_SECRET_KEY"
HTTP_200_OK == 200
HTTP_201_CREATED == 201
HTTP_204_NO_CONTENT == 204
HTTP_400_BAD_REQUEST == 400
HTTP_401_UNAUTHORIZED == 401
HTTP_403_FORBIDDEN == 403
HTTP_404_NOT_FOUND == 404
HTTP_500_INTERNAL_SERVER_ERROR == 500

\* models/user.py UserRole
UserRole == {"manager", "worker", "client"}
\* models/expense.py VerificationStatus
VerificationStatus == {"pending", "approved", "flagged"}

\* ------------------------------------------------------------ input sets
Usernames == {"alice", "bob", "carol", "dave"}
Passwords == {"secret1", "secret2"}
\* One clock step of the model, in minutes.
TickMinutes == ACCESS_TOKEN_EXPIRE_MINUTES \div 2

\* ------------------------------------------------------------- passwords
\* A stored credential value.  passlib's bcrypt hash carries a salt and is
\* one-way; "plain" is a value kept as supplied; "absent" a missing field.
Absent == [enc |-> "absent", salt |-> 0, of |-> ""]
PlainText(p) == [enc |-> "plain", salt |-> 0, of |-> p]

\* get_password_hash as it would be if the password were kept as supplied.
keep_password(password, salt) == PlainText(password)

get_password_hash(password, salt) == [enc |-> "bcrypt", salt |-> salt, of |-> password]

verify_password(plain_password, hashed_password) ==
    /\ hashed_password.enc = "bcrypt"
    /\ hashed_password.of = plain_password

\* ---------------------------------------------------------------- tokens
\* What a request presents as its Authorization header.
NoToken == [kind |-> "missing"]
Garbage == [kind |-> "garbage"]
NoClaims == [sub |-> "", user_id |-> 0, role |-> "", exp |-> 0]

\* jwt.encode(to_encode, SECRET_KEY): the claims under an HS256 signature.
JwtEncode(claims, key) == [kind |-> "jwt", claims |-> claims, key |-> key]

\* create_access_token as it would be with expires_delta left out of exp.
create_access_token_no_delta(data, expires_delta, utcnow) ==
    [kind |-> "jwt", key |-> SECRET_KEY,
     claims |-> [sub |-> data.sub, user_id |-> data.user_id, role |-> data.role,
                 exp |-> utcnow]]

create_access_token(data, expires_delta, utcnow) ==
    JwtEncode([sub |-> data.sub, user_id |-> data.user_id, role |-> data.role,
               exp |-> utcnow + expires_delta], SECRET_KEY)

\* jwt.decode(token, SECRET_KEY, algorithms=[ALGORITHM]): a JWTError for a
\* token that is no JWT, whose signature does not verify, or whose exp is
\* in the past; the claims otherwise.
JwtDecode(token, key, utcnow) ==
    IF token.kind # "jwt" THEN [ok |-> FALSE, claims |-> NoClaims]
    ELSE IF token.key # key THEN [ok |-> FALSE, claims |-> NoClaims]
    ELSE IF token.claims.exp < utcnow THEN [ok |-> FALSE, claims |-> NoClaims]
    ELSE [ok |-> TRUE, claims |-> token.claims]

\* ----------------------------------------------------------------- state
VARIABLES
    users,      \* users_collection: id -> document
    tokens,     \* tokens login has issued, each with what it was issued for
    now,        \* datetime.utcnow(), in minutes
    projects,   \* projects_collection: id -> document
    expenses,   \* expenses_collection: id -> document
    created,    \* per collection, how many ids (and salts) were handed out
    pending,    \* per request slot, a register / create-staff call between
                \* its username lookup and its insert
    truePw,     \* history: user id -> the password last set for that user
    last,       \* the last request and its response
    inventory,      \* inventory_collection: id -> document
    usage,          \* material_usage_collection, in insertion order
    requests,       \* requests_collection, in insertion order
    notifications,  \* notifications_collection, in insertion order
    inflight,       \* per request slot, a handler between two of its awaits
    uploads         \* the files under uploads/receipts and uploads/inventory

\* The collections of the site: materials, requests and notifications.
site == <<inventory, usage, requests, notifications, inflight, uploads>>
vars == <<users, tokens, now, projects, expenses, created, pending, truePw, last, site>>
store == <<users, projects, expenses>>

Procs == 1..NProcs
Idle == [op |-> "idle", token |-> NoToken, username |-> "", email |-> "", role |-> "",
         password |-> ""]

\* A request slot no handler is suspended in.
Free == [op |-> "free", token |-> NoToken, project_id |-> 0, item_name |-> "",
         quantity |-> 0, found |-> 0]

NoData == [kind |-> "none"]
\* The credentials a register, create-staff, update or login request carries.
NoReq == [username |-> "", email |-> "", password |-> ""]
NoRequest == [op |-> "none", token |-> NoToken, arg |-> 0, status |-> 0,
              entered |-> FALSE, body |-> NoData, allowed |-> {}, req |-> NoReq]

Init ==
    /\ users = <<>>
    /\ tokens = {}
    /\ now = 0
    /\ projects = <<>>
    /\ expenses = <<>>
    /\ created = [users |-> 0, projects |-> 0, expenses |-> 0, salts |-> 0]
    /\ pending = [p \in Procs |-> Idle]
    /\ truePw = <<>>
    /\ last = NoRequest
    /\ inventory = <<>>
    /\ usage = <<>>
    /\ requests = <<>>
    /\ notifications = <<>>
    /\ inflight = [p \in Procs |-> Free]
    /\ uploads = {}

\* --------------------------------------------------- user store (MongoDB)
Min(S) == CHOOSE x \in S : \A y \in S : x <= y

\* users_collection.find_one({"username": username}): the id of the first
\* matching document in insertion order, 0 for None.
get_user_by_username(username) ==
    LET hits == {i \in DOMAIN users : users[i].username = username}
    IN  IF hits = {} THEN 0 ELSE Min(hits)

\* users_collection.find_one({"_id": ObjectId(user_id)}): 0 for None.
get_user_by_id(user_id) == IF user_id \in DOMAIN users THEN user_id ELSE 0

\* The unique indexes on username and email (create_indexes): a write that
\* would leave two documents with one username or one email raises
\* DuplicateKeyError.  `self` is the document being rewritten, 0 on insert.
NoUniqueIndex(self, username, email) == FALSE

DuplicateKey(self, username, email) ==
    \E i \in DOMAIN users \ {self} :
        users[i].username = username \/ users[i].email = email

\* What a handler hands to the response model User (no credential fields).
UserOut(id, doc) == [kind |-> "user", id |-> id, username |-> doc.username,
                     email |-> doc.email, role |-> doc.role]

\* ------------------------------------------------------------- responses
RespondTo(req, op, token, arg, allowed, status, entered, body) ==
    last' = [op |-> op, token |-> token, arg |-> arg, status |-> status,
             entered |-> entered, body |-> body, allowed |-> allowed, req |-> req]

Respond(op, token, arg, allowed, status, entered, body) ==
    RespondTo(NoReq, op, token, arg, allowed, status, entered, body)

\* ------------------------------------------------------------- the gates
\* Depends(oauth2_scheme) answers 401 itself when the header is missing.
\* Inside _check_user_role the 401 (no role) and the 403 (role not allowed)
\* are raised within the try block, whose `except Exception` turns every
\* exception that is not a JWTError into a 500.
\* check_user_role as it would be without the test of the role.
check_user_role_any_role(allowed_roles, token) ==
    IF token.kind = "missing" THEN [status |-> HTTP_401_UNAUTHORIZED, payload |-> NoClaims]
    ELSE LET d == JwtDecode(token, SECRET_KEY, now)
         IN  IF ~d.ok THEN [status |-> HTTP_401_UNAUTHORIZED, payload |-> NoClaims]
             ELSE [status |-> HTTP_200_OK, payload |-> d.claims]

check_user_role(allowed_roles, token) ==
    IF token.kind = "missing" THEN [status |-> HTTP_401_UNAUTHORIZED, payload |-> NoClaims]
    ELSE LET d == JwtDecode(token, SECRET_KEY, now)
         IN  IF ~d.ok THEN [status |-> HTTP_401_UNAUTHORIZED, payload |-> NoClaims]
             ELSE IF d.claims.role = ""
                  THEN [status |-> HTTP_500_INTERNAL_SERVER_ERROR, payload |-> NoClaims]
             ELSE IF d.claims.role \notin UserRole \/ d.claims.role \notin allowed_roles
                  THEN [status |-> HTTP_500_INTERNAL_SERVER_ERROR, payload |-> NoClaims]
             ELSE [status |-> HTTP_200_OK, payload |-> d.claims]

\* get_current_user: the stored user found by the token's sub, with the
\* payload beside it.  Its credentials_exception too is raised inside the
\* try block and leaves as a 500.
NoUser == [id |-> 0, username |-> "", role |-> "", token_payload |-> NoClaims]

get_current_user(token) ==
    IF token.kind = "missing" THEN [status |-> HTTP_401_UNAUTHORIZED, user |-> NoUser]
    ELSE LET d == JwtDecode(token, SECRET_KEY, now)
         IN  IF ~d.ok THEN [status |-> HTTP_401_UNAUTHORIZED, user |-> NoUser]
             ELSE IF d.claims.sub = ""
                  THEN [status |-> HTTP_500_INTERNAL_SERVER_ERROR, user |-> NoUser]
             ELSE LET id == get_user_by_username(d.claims.sub)
                  IN  IF id = 0
                      THEN [status |-> HTTP_500_INTERNAL_SERVER_ERROR, user |-> NoUser]
                      ELSE [status |-> HTTP_200_OK,
                            user |-> [id |-> id, username |-> users[id].username,
                                      role |-> users[id].role,
                                      token_payload |-> d.claims]]

\* ------------------------------------------------- register, create-staff
\* The second half of register_user / create_staff_account: hash the
\* password, build the document without the plaintext, create_user.  A
\* DuplicateKeyError from insert_one leaves through `except Exception`.
StoreNewUser(op, token, allowed, username, email, role, password) ==
    LET salt == created.salts + 1
        id == created.users + 1
        doc == [username |-> username, email |-> email, role |-> role,
                hashed_password |-> get_password_hash(password, salt),
                password |-> Absent]
    IN  IF DuplicateKey(0, username, email)
        THEN /\ RespondTo([username |-> username, email |-> email, password |-> password], op, token, 0, allowed, HTTP_500_INTERNAL_SERVER_ERROR, TRUE, NoData)
             /\ UNCHANGED <<users, created, truePw>>
        ELSE /\ users' = users @@ (id :> doc)
             /\ created' = [created EXCEPT !.users = id, !.salts = salt]
             /\ truePw' = truePw @@ (id :> password)
             /\ RespondTo([username |-> username, email |-> email, password |-> password], op, token, id, allowed, HTTP_200_OK, TRUE, UserOut(id, doc))

register_user(username, email, role, password) ==
    /\ created.users < MaxUsers
    /\ IF get_user_by_username(username) # 0
       THEN /\ RespondTo([username |-> username, email |-> email, password |-> password], "register", NoToken, 0, {}, HTTP_400_BAD_REQUEST, TRUE, NoData)
            /\ UNCHANGED <<users, created, truePw>>
       ELSE StoreNewUser("register", NoToken, {}, username, email, role, password)
    /\ UNCHANGED <<tokens, now, projects, expenses, pending, site>>

create_staff_account(token, username, email, role, password) ==
    /\ created.users < MaxUsers
    /\ LET g == check_user_role({"manager"}, token)
       IN  IF g.status # HTTP_200_OK
           THEN /\ RespondTo([username |-> username, email |-> email, password |-> password], "create_staff", token, 0, {"manager"}, g.status, FALSE, NoData)
                /\ UNCHANGED <<users, created, truePw>>
           ELSE IF role \notin {"manager", "worker"}
           THEN /\ RespondTo([username |-> username, email |-> email, password |-> password], "create_staff", token, 0, {"manager"}, HTTP_400_BAD_REQUEST, TRUE, NoData)
                /\ UNCHANGED <<users, created, truePw>>
           ELSE IF get_user_by_username(username) # 0
           THEN /\ RespondTo([username |-> username, email |-> email, password |-> password], "create_staff", token, 0, {"manager"}, HTTP_400_BAD_REQUEST, TRUE, NoData)
                /\ UNCHANGED <<users, created, truePw>>
           ELSE StoreNewUser("create_staff", token, {"manager"}, username, email, role, password)
    /\ UNCHANGED <<tokens, now, projects, expenses, pending, site>>

\* The same two handlers as concurrent requests see them: the username
\* lookup and the insert are separate awaits, and other requests run between.
register_lookup(p, username, email, role, password) ==
    /\ pending[p] = Idle
    /\ created.users < MaxUsers
    /\ IF get_user_by_username(username) # 0
       THEN /\ RespondTo([username |-> username, email |-> email, password |-> password], "register", NoToken, 0, {}, HTTP_400_BAD_REQUEST, TRUE, NoData)
            /\ UNCHANGED pending
       ELSE /\ pending' = [pending EXCEPT ![p] =
                  [op |-> "register", token |-> NoToken, username |-> username,
                   email |-> email, role |-> role, password |-> password]]
            /\ UNCHANGED last
    /\ UNCHANGED <<users, tokens, now, projects, expenses, created, truePw, site>>

create_staff_lookup(p, token, username, email, role, password) ==
    /\ pending[p] = Idle
    /\ created.users < MaxUsers
    /\ LET g == check_user_role({"manager"}, token)
       IN  IF g.status # HTTP_200_OK
           THEN /\ RespondTo([username |-> username, email |-> email, password |-> password], "create_staff", token, 0, {"manager"}, g.status, FALSE, NoData)
                /\ UNCHANGED pending
           ELSE IF role \notin {"manager", "worker"} \/ get_user_by_username(username) # 0
           THEN /\ RespondTo([username |-> username, email |-> email, password |-> password], "create_staff", token, 0, {"manager"}, HTTP_400_BAD_REQUEST, TRUE, NoData)
                /\ UNCHANGED pending
           ELSE /\ pending' = [pending EXCEPT ![p] =
                      [op |-> "create_staff", token |-> token, username |-> username,
                       email |-> email, role |-> role, password |-> password]]
                /\ UNCHANGED last
    /\ UNCHANGED <<users, tokens, now, projects, expenses, created, truePw, site>>

user_insert(p) ==
    /\ pending[p] # Idle
    /\ StoreNewUser(pending[p].op, pending[p].token,
                    IF pending[p].op = "create_staff" THEN {"manager"} ELSE {},
                    pending[p].username, pending[p].email, pending[p].role,
                    pending[p].password)
    /\ pending' = [pending EXCEPT ![p] = Idle]
    /\ UNCHANGED <<tokens, now, projects, expenses, site>>

\* ------------------------------------------------------------------ login
\* authenticate_user: the stored user's id, 0 for False.
authenticate_user(username, password) ==
    LET id == get_user_by_username(username)
    IN  IF id = 0 THEN 0
        ELSE IF ~verify_password(password, users[id].hashed_password) THEN 0
        ELSE id

TokenOut(token) == [kind |-> "token", access_token |-> token, token_type |-> "bearer"]

login_for_access_token(username, password) ==
    /\ LET id == authenticate_user(username, password)
       IN  IF id = 0
           THEN /\ RespondTo([username |-> username, email |-> "", password |-> password], "login", NoToken, 0, {}, HTTP_401_UNAUTHORIZED, TRUE, NoData)
                /\ UNCHANGED tokens
           ELSE LET token == create_access_token(
                        [sub |-> users[id].username, user_id |-> id, role |-> users[id].role],
                        ACCESS_TOKEN_EXPIRE_MINUTES, now)
                    issue == [token |-> token, username |-> users[id].username,
                              user_id |-> id, role |-> users[id].role, at |-> now]
                IN  /\ tokens' = tokens \cup {issue}
                    /\ RespondTo([username |-> username, email |-> "", password |-> password], "login", NoToken, id, {}, HTTP_200_OK, TRUE, TokenOut(token))
    /\ UNCHANGED <<users, now, projects, expenses, created, pending, truePw, site>>

\* Time passes between two requests.
Tick ==
    /\ now < MaxTicks * TickMinutes
    /\ now' = now + TickMinutes
    /\ last' = NoRequest
    /\ UNCHANGED <<users, tokens, projects, expenses, created, pending, truePw, site>>

\* What a caller can put in the Authorization header: nothing, something
\* that is no JWT, a token login issued, or the claims of one with the
\* role set to manager, signed with a key that is not the server's.
Forged(issue) ==
    {JwtEncode([issue.token.claims EXCEPT !.role = "manager"], "attacker key")}
Presentable ==
    {NoToken, Garbage} \cup {i.token : i \in tokens} \cup UNION {Forged(i) : i \in tokens}
Issued == {i.token : i \in tokens}

\* ------------------------------------------------------ users: update
\* update_user_by_id; "" stands for a field the request leaves out.  The
\* hashed password goes into the `password` key of the $set.
update_user_by_id(token, user_id, email, role, password) ==
    /\ password # "" => created.salts < created.users + MaxPwUpdates
    /\ LET g == check_user_role({"manager"}, token)
           salt == created.salts + 1
       IN  IF g.status # HTTP_200_OK
           THEN /\ RespondTo([username |-> "", email |-> email, password |-> password], "update_user", token, user_id, {"manager"}, g.status, FALSE, NoData)
                /\ UNCHANGED <<users, created, truePw>>
           ELSE IF get_user_by_id(user_id) = 0
           THEN /\ RespondTo([username |-> "", email |-> email, password |-> password], "update_user", token, user_id, {"manager"}, HTTP_404_NOT_FOUND, TRUE, NoData)
                /\ UNCHANGED <<users, created, truePw>>
           ELSE LET old == users[user_id]
                    new == [old EXCEPT
                              !.email = IF email # "" THEN email ELSE @,
                              !.role = IF role # "" THEN role ELSE @,
                              !.password = IF password # ""
                                           THEN get_password_hash(password, salt) ELSE @]
                IN  IF \/ email # "" /\ DuplicateKey(user_id, new.username, new.email)
                       \/ new = old
                    THEN \* DuplicateKeyError, or modified_count == 0
                         /\ RespondTo([username |-> "", email |-> email, password |-> password], "update_user", token, user_id, {"manager"},
                                    HTTP_500_INTERNAL_SERVER_ERROR, TRUE, NoData)
                         /\ UNCHANGED <<users, created, truePw>>
                    ELSE /\ users' = [users EXCEPT ![user_id] = new]
                         /\ created' = IF password # ""
                                       THEN [created EXCEPT !.salts = salt] ELSE created
                         /\ truePw' = IF password # ""
                                      THEN [truePw EXCEPT ![user_id] = password] ELSE truePw
                         /\ RespondTo([username |-> "", email |-> email, password |-> password], "update_user", token, user_id, {"manager"},
                                    HTTP_200_OK, TRUE, UserOut(user_id, new))
    /\ UNCHANGED <<tokens, now, projects, expenses, pending, site>>

\* ------------------------------------------------------ the gate payload
\* The payload check_user_role returns is the decoded token: its keys are
\* sub, user_id, role and exp.  current_user[key] raises KeyError for any
\* other key.
PayloadKeys == {"sub", "user_id", "role", "exp"}
HasKey(payload, key) == key \in PayloadKeys
\* payload[key] for the keys that hold an id.
IdAt(payload, key) == IF key = "user_id" THEN payload.user_id ELSE 0

\* current_user["id"] compared with an id of the request, on the payload
\* of the gate.
SelfCheck(payload, id) ==
    IF ~HasKey(payload, "id") THEN "KeyError"
    ELSE IF id # IdAt(payload, "id") THEN "denied"
    ELSE "ok"

\* ------------------------------------------------------ users: delete
\* users_collection.delete_one({"_id": ObjectId(user_id)})
delete_user(user_id) == [i \in DOMAIN users \ {user_id} |-> users[i]]

\* delete_user_by_id: the self-protection test reads current_user["id"] on
\* the payload of the gate, inside the try block.
delete_user_by_id(token, user_id) ==
    /\ LET g == check_user_role({"manager"}, token)
           A == {"manager"}
       IN  IF g.status # HTTP_200_OK
           THEN /\ Respond("delete_user", token, user_id, A, g.status, FALSE, NoData)
                /\ UNCHANGED users
           ELSE IF get_user_by_id(user_id) = 0
           THEN /\ Respond("delete_user", token, user_id, A, HTTP_404_NOT_FOUND, TRUE, NoData)
                /\ UNCHANGED users
           ELSE IF SelfCheck(g.payload, user_id) = "KeyError"
           THEN \* caught by `except Exception`
                /\ Respond("delete_user", token, user_id, A,
                           HTTP_500_INTERNAL_SERVER_ERROR, TRUE, NoData)
                /\ UNCHANGED users
           ELSE IF SelfCheck(g.payload, user_id) = "ok"
           THEN /\ Respond("delete_user", token, user_id, A, HTTP_400_BAD_REQUEST, TRUE, NoData)
                /\ UNCHANGED users
           ELSE /\ users' = delete_user(user_id)
                /\ Respond("delete_user", token, user_id, A, HTTP_204_NO_CONTENT, TRUE, NoData)
    /\ UNCHANGED <<tokens, now, projects, expenses, created, pending, truePw, site>>

\* --------------------------------------------------------------- projects
get_project(project_id) == IF project_id \in DOMAIN projects THEN project_id ELSE 0

ProjectOut(id) == [kind |-> "project", id |-> id, name |-> projects[id].name,
                   client_id |-> projects[id].client_id,
                   progress_reports |-> projects[id].progress_reports]

create_project(token, name, client_id) ==
    /\ created.projects < MaxProjects
    /\ LET g == check_user_role({"manager"}, token)
           id == created.projects + 1
           doc == [name |-> name, client_id |-> client_id, status |-> "planning",
                   created_by |-> g.payload.user_id, progress_reports |-> <<>>]
       IN  IF g.status # HTTP_200_OK
           THEN /\ Respond("create_project", token, 0, {"manager"}, g.status, FALSE, NoData)
                /\ UNCHANGED <<projects, created>>
           ELSE IF get_user_by_id(client_id) = 0
           THEN /\ Respond("create_project", token, 0, {"manager"}, HTTP_404_NOT_FOUND, TRUE, NoData)
                /\ UNCHANGED <<projects, created>>
           ELSE IF users[client_id].role # "client"
           THEN /\ Respond("create_project", token, 0, {"manager"}, HTTP_400_BAD_REQUEST, TRUE, NoData)
                /\ UNCHANGED <<projects, created>>
           ELSE /\ projects' = projects @@ (id :> doc)
                /\ created' = [created EXCEPT !.projects = id]
                /\ Respond("create_project", token, id, {"manager"}, HTTP_200_OK, TRUE,
                           [kind |-> "project", id |-> id, name |-> name,
                            client_id |-> client_id, progress_reports |-> <<>>])
    /\ UNCHANGED <<users, tokens, now, expenses, pending, truePw, site>>

NoOwnershipCheck(role, user_id, project_id) == FALSE

\* The ownership test shared by the three read endpoints:
\* role == "client" and project["client_id"] != user_id.
ClientOfAnother(role, user_id, project_id) ==
    role = "client" /\ projects[project_id].client_id # user_id

\* get_project_by_id: role and id are the stored user's (get_current_user).
get_project_by_id(token, project_id) ==
    /\ LET c == get_current_user(token)
       IN  IF c.status # HTTP_200_OK
           THEN Respond("get_project", token, project_id, UserRole, c.status, FALSE, NoData)
           ELSE IF get_project(project_id) = 0
           THEN Respond("get_project", token, project_id, UserRole, HTTP_404_NOT_FOUND, TRUE, NoData)
           ELSE IF ClientOfAnother(c.user.role, c.user.id, project_id)
           THEN Respond("get_project", token, project_id, UserRole, HTTP_403_FORBIDDEN, TRUE, NoData)
           ELSE Respond("get_project", token, project_id, UserRole, HTTP_200_OK, TRUE,
                        ProjectOut(project_id))
    /\ UNCHANGED <<users, tokens, now, projects, expenses, created, pending, truePw, site>>

\* get_project_progress: role and user_id are the token's.
get_project_progress(token, project_id) ==
    /\ LET g == check_user_role({"manager", "client"}, token)
           A == {"manager", "client"}
       IN  IF g.status # HTTP_200_OK
           THEN Respond("get_progress", token, project_id, A, g.status, FALSE, NoData)
           ELSE IF get_project(project_id) = 0
           THEN Respond("get_progress", token, project_id, A, HTTP_404_NOT_FOUND, TRUE, NoData)
           ELSE IF ClientOfAnother(g.payload.role, g.payload.user_id, project_id)
           THEN Respond("get_progress", token, project_id, A, HTTP_403_FORBIDDEN, TRUE, NoData)
           ELSE Respond("get_progress", token, project_id, A, HTTP_200_OK, TRUE,
                        [kind |-> "reports", project_id |-> project_id,
                         reports |-> projects[project_id].progress_reports])
    /\ UNCHANGED <<users, tokens, now, projects, expenses, created, pending, truePw, site>>

\* ---------------------------------------------------------------- summary
\* The find as it would be with a filter on the verification status.
get_approved_expenses(project_id) ==
    {e \in DOMAIN expenses :
         expenses[e].project_id = project_id /\ expenses[e].verified = "approved"}

\* expenses_collection.find({"project_id": project_id})
get_expenses_by_project(project_id) ==
    {e \in DOMAIN expenses : expenses[e].project_id = project_id}

RECURSIVE SumAmounts(_)
SumAmounts(ids) ==
    IF ids = {} THEN 0
    ELSE LET e == CHOOSE x \in ids : TRUE
         IN  expenses[e].amount + SumAmounts(ids \ {e})

\* material_usage_collection.find({"project_id": project_id})
get_material_usage_by_project(project_id) ==
    SelectSeq(usage, LAMBDA log : log.project_id = project_id)

\* The grouping loop as it would be with `=` in place of `+=`.
LastUsage(usage_logs, material_usage) ==
    IF usage_logs = <<>> THEN material_usage
    ELSE usage_logs[Len(usage_logs)].item_name :> usage_logs[Len(usage_logs)].quantity_used

\* The loop over usage_logs: material_usage[item_name] += quantity, or the
\* key is created with the quantity.
RECURSIVE SumUsage(_, _)
SumUsage(usage_logs, material_usage) ==
    IF usage_logs = <<>> THEN material_usage
    ELSE LET log == Head(usage_logs)
             item_name == log.item_name
             quantity == log.quantity_used
         IN  SumUsage(Tail(usage_logs),
                      IF item_name \in DOMAIN material_usage
                      THEN [material_usage EXCEPT ![item_name] = @ + quantity]
                      ELSE material_usage @@ (item_name :> quantity))

\* progress_reports[-1] if progress_reports else {"percentage_complete": 0}
latest_progress(progress_reports) ==
    IF progress_reports # <<>>
    THEN progress_reports[Len(progress_reports)].percentage_complete
    ELSE 0

\* get_project_summary, for a project that exists: one read of the
\* expenses, one of the usage logs, one of the progress reports.
get_project_summary(project_id) ==
    LET es == get_expenses_by_project(project_id)
        usage_logs == get_material_usage_by_project(project_id)
    IN  [kind |-> "summary",
         project_name |-> projects[project_id].name,
         total_expenses |-> SumAmounts(es),
         material_usage |-> SumUsage(usage_logs, <<>>),
         progress_percentage |-> latest_progress(projects[project_id].progress_reports),
         expenses_count |-> Cardinality(es),
         material_usage_count |-> Len(usage_logs)]

\* get_project_summary answers {} when it does not find the project.
EmptySummary == [kind |-> "empty"]
\* response_model=ProjectSummary: every field of the model is required.
ProjectSummaryValid(summary) == summary.kind = "summary"

get_project_stats(token, project_id) ==
    /\ LET g == check_user_role({"manager", "client"}, token)
           A == {"manager", "client"}
       IN  IF g.status # HTTP_200_OK
           THEN Respond("get_summary", token, project_id, A, g.status, FALSE, NoData)
           ELSE IF get_project(project_id) = 0
           THEN Respond("get_summary", token, project_id, A, HTTP_404_NOT_FOUND, TRUE, NoData)
           ELSE IF ClientOfAnother(g.payload.role, g.payload.user_id, project_id)
           THEN Respond("get_summary", token, project_id, A, HTTP_403_FORBIDDEN, TRUE, NoData)
           ELSE Respond("get_summary", token, project_id, A, HTTP_200_OK, TRUE,
                        get_project_summary(project_id))
    /\ UNCHANGED <<users, tokens, now, projects, expenses, created, pending, truePw, site>>

\* get_project_stats up to its first await: the gate, the existence test
\* and the ownership test.  Other requests run before get_project_summary
\* reads the project again.
get_project_stats_check(p, token, project_id) ==
    /\ inflight[p] = Free
    /\ LET g == check_user_role({"manager", "client"}, token)
           A == {"manager", "client"}
       IN  IF g.status # HTTP_200_OK
           THEN /\ Respond("get_summary", token, project_id, A, g.status, FALSE, NoData)
                /\ UNCHANGED inflight
           ELSE IF get_project(project_id) = 0
           THEN /\ Respond("get_summary", token, project_id, A, HTTP_404_NOT_FOUND, TRUE, NoData)
                /\ UNCHANGED inflight
           ELSE IF ClientOfAnother(g.payload.role, g.payload.user_id, project_id)
           THEN /\ Respond("get_summary", token, project_id, A, HTTP_403_FORBIDDEN, TRUE, NoData)
                /\ UNCHANGED inflight
           ELSE /\ inflight' = [inflight EXCEPT ![p] =
                       [op |-> "get_summary", token |-> token, project_id |-> project_id,
                        item_name |-> "", quantity |-> 0, found |-> 0]]
                /\ UNCHANGED last
    /\ UNCHANGED <<users, tokens, now, projects, expenses, created, pending, truePw,
                   inventory, usage, requests, notifications, uploads>>

\* The rest of get_project_stats: get_project_summary, and the validation
\* of what the handler returned against the response model, which happens
\* after the handler and outside its try block.
get_project_stats_return(p) ==
    /\ inflight[p].op = "get_summary"
    /\ LET project_id == inflight[p].project_id
           A == {"manager", "client"}
           summary == IF get_project(project_id) = 0 THEN EmptySummary
                      ELSE get_project_summary(project_id)
       IN  IF ProjectSummaryValid(summary)
           THEN Respond("get_summary", inflight[p].token, project_id, A,
                        HTTP_200_OK, TRUE, summary)
           ELSE Respond("get_summary", inflight[p].token, project_id, A,
                        HTTP_500_INTERNAL_SERVER_ERROR, TRUE, NoData)
    /\ inflight' = [inflight EXCEPT ![p] = Free]
    /\ UNCHANGED <<users, tokens, now, projects, expenses, created, pending, truePw,
                   inventory, usage, requests, notifications, uploads>>

\* --------------------------------------------------------------- expenses
Amounts == {25}

\* project["client_id"] != current_user["id"], on the payload of the gate.
OwnershipSkipped(payload, project_id) == "ok"

ClientIdCheck(payload, project_id) ==
    IF ~HasKey(payload, "id") THEN "KeyError"
    ELSE IF projects[project_id].client_id # IdAt(payload, "id") THEN "denied"
    ELSE "ok"

ExpenseOut(id) == [id |-> id, amount |-> expenses[id].amount,
                   project_id |-> expenses[id].project_id,
                   verified |-> expenses[id].verified]

\* ----------------------------------------------------------- uploaded files
\* open(path, "wb") and shutil.copyfileobj can fail: in open, and no file is
\* created, or in the copy, and an incomplete file stays behind.
WriteOutcomes == {"saved", "open_failed", "copy_failed"}
\* A file of the uploads directory, and the URL stored for it: the
\* f"uploads/receipts/{name}" and f"/receipts/{name}" of the handlers.
UploadPath(dir, name) == [dir |-> dir, name |-> name]
UploadUrl(mount, name) == [mount |-> mount, name |-> name]
NoImage == [mount |-> "none", name |-> 0]
\* app.mount("/receipts", StaticFiles(directory="uploads/receipts")) and
\* app.mount("/inventory-images", StaticFiles(directory="uploads/inventory"))
StaticFile(url) ==
    UploadPath(IF url.mount = "/receipts" THEN "uploads/receipts"
               ELSE IF url.mount = "/inventory-images" THEN "uploads/inventory"
               ELSE "none",
               url.name)
\* uuid.uuid4(): a file name no file of the directory has.
uuid4 == Cardinality(uploads) + 1

\* The write as it would be if nothing reached the disk.
lose_upload(dir, name, outcome) == uploads

\* with open(path, "wb") as buffer: shutil.copyfileobj(file, buffer)
save_upload(dir, name, outcome) ==
    IF outcome = "open_failed" THEN uploads
    ELSE uploads \cup {UploadPath(dir, name)}

\* response_model=Expense: amount: float = Field(..., gt=0).
ExpenseValid(expense) == expense.amount > 0

\* add_project_expense.  The amount arrives as a plain Form float; the
\* response is validated against Expense after the handler has returned.
add_project_expense(token, amount, project_id, outcome) ==
    /\ created.expenses < MaxExpenses
    /\ LET g == check_user_role({"manager"}, token)
           id == created.expenses + 1
           receipt_filename == uuid4
           \* add_expense stores the document; verified is "pending"
           doc == [amount |-> amount, project_id |-> project_id,
                   receipt_url |-> UploadUrl("/receipts", receipt_filename),
                   verified |-> "pending"]
       IN  IF g.status # HTTP_200_OK
           THEN /\ Respond("add_expense", token, project_id, {"manager"}, g.status, FALSE, NoData)
                /\ UNCHANGED <<expenses, created, uploads>>
           ELSE IF get_project(project_id) = 0
           THEN /\ Respond("add_expense", token, project_id, {"manager"}, HTTP_404_NOT_FOUND, TRUE, NoData)
                /\ UNCHANGED <<expenses, created, uploads>>
           ELSE IF outcome # "saved"
           THEN /\ uploads' = save_upload("uploads/receipts", receipt_filename, outcome)
                /\ Respond("add_expense", token, project_id, {"manager"},
                           HTTP_500_INTERNAL_SERVER_ERROR, TRUE, NoData)
                /\ UNCHANGED <<expenses, created>>
           ELSE /\ uploads' = save_upload("uploads/receipts", receipt_filename, outcome)
                /\ expenses' = expenses @@ (id :> doc)
                /\ created' = [created EXCEPT !.expenses = id]
                /\ IF ExpenseValid(doc)
                   THEN Respond("add_expense", token, id, {"manager"}, HTTP_200_OK, TRUE,
                                [kind |-> "expense", id |-> id, amount |-> amount,
                                 project_id |-> project_id, verified |-> "pending"])
                   ELSE Respond("add_expense", token, id, {"manager"},
                                HTTP_500_INTERNAL_SERVER_ERROR, TRUE, NoData)
    /\ UNCHANGED <<users, tokens, now, projects, pending, truePw,
                   inventory, usage, requests, notifications, inflight>>

\* get_project_expenses: the client test reads current_user["id"].
get_project_expenses(token, project_id) ==
    /\ LET g == check_user_role({"manager", "client"}, token)
           A == {"manager", "client"}
       IN  IF g.status # HTTP_200_OK
           THEN Respond("list_expenses", token, project_id, A, g.status, FALSE, NoData)
           ELSE IF get_project(project_id) = 0
           THEN Respond("list_expenses", token, project_id, A, HTTP_404_NOT_FOUND, TRUE, NoData)
           ELSE IF g.payload.role = "client" /\ ClientIdCheck(g.payload, project_id) = "KeyError"
           THEN \* caught by `except Exception`
                Respond("list_expenses", token, project_id, A,
                        HTTP_500_INTERNAL_SERVER_ERROR, TRUE, NoData)
           ELSE IF g.payload.role = "client" /\ ClientIdCheck(g.payload, project_id) = "denied"
           THEN Respond("list_expenses", token, project_id, A, HTTP_403_FORBIDDEN, TRUE, NoData)
           ELSE Respond("list_expenses", token, project_id, A, HTTP_200_OK, TRUE,
                        [kind |-> "expenses", project_id |-> project_id,
                         items |-> {ExpenseOut(e) : e \in get_expenses_by_project(project_id)}])
    /\ UNCHANGED <<users, tokens, now, projects, expenses, created, pending, truePw, site>>

\* verify_expense_authenticity: the ownership test reads current_user["id"].
verify_expense_authenticity(token, expense_id, status) ==
    /\ LET g == check_user_role({"client"}, token)
           A == {"client"}
       IN  IF g.status # HTTP_200_OK
           THEN /\ RespondTo([status |-> status], "verify", token, expense_id, A, g.status, FALSE, NoData)
                /\ UNCHANGED expenses
           ELSE IF expense_id \notin DOMAIN expenses
           THEN /\ RespondTo([status |-> status], "verify", token, expense_id, A, HTTP_404_NOT_FOUND, TRUE, NoData)
                /\ UNCHANGED expenses
           ELSE IF get_project(expenses[expense_id].project_id) = 0
           THEN /\ RespondTo([status |-> status], "verify", token, expense_id, A, HTTP_404_NOT_FOUND, TRUE, NoData)
                /\ UNCHANGED expenses
           ELSE IF ClientIdCheck(g.payload, expenses[expense_id].project_id) = "KeyError"
           THEN \* caught by `except Exception`
                /\ RespondTo([status |-> status], "verify", token, expense_id, A,
                           HTTP_500_INTERNAL_SERVER_ERROR, TRUE, NoData)
                /\ UNCHANGED expenses
           ELSE IF ClientIdCheck(g.payload, expenses[expense_id].project_id) = "denied"
           THEN /\ RespondTo([status |-> status], "verify", token, expense_id, A, HTTP_403_FORBIDDEN, TRUE, NoData)
                /\ UNCHANGED expenses
           ELSE IF expenses[expense_id].verified = status
           THEN \* verify_expense: modified_count == 0
                /\ RespondTo([status |-> status], "verify", token, expense_id, A,
                           HTTP_500_INTERNAL_SERVER_ERROR, TRUE, NoData)
                /\ UNCHANGED expenses
           ELSE /\ expenses' = [expenses EXCEPT ![expense_id].verified = status]
                /\ RespondTo([status |-> status], "verify", token, expense_id, A, HTTP_200_OK, TRUE,
                           [kind |-> "message", status |-> status])
    /\ UNCHANGED <<users, tokens, now, projects, created, pending, truePw, site>>

\* ------------------------------------------------------ progress reports
\* percentage_complete of ProgressReportCreate: 0 <= x <= 100.
Percentages == {25, 60}

\* add_progress_report as it would be with the report put first.
prepend_progress_report(project_id, percentage_complete, submitted_by) ==
    IF get_project(project_id) = 0 THEN projects
    ELSE [projects EXCEPT ![project_id].progress_reports =
              <<[percentage_complete |-> percentage_complete,
                 submitted_by |-> submitted_by]>> \o @]

\* add_progress_report: one $push on the project's document; update_one
\* matches nothing when the project is gone.
add_progress_report(project_id, percentage_complete, submitted_by) ==
    IF get_project(project_id) = 0 THEN projects
    ELSE [projects EXCEPT ![project_id].progress_reports =
              Append(@, [percentage_complete |-> percentage_complete,
                         submitted_by |-> submitted_by])]

\* submit_progress_report up to its `await get_project`: the gate and the
\* existence test.  Other requests run before the $push.
submit_progress_report(p, token, project_id, percentage_complete) ==
    /\ inflight[p] = Free
    /\ LET g == check_user_role({"manager"}, token)
           A == {"manager"}
       IN  IF g.status # HTTP_200_OK
           THEN /\ Respond("submit_progress", token, project_id, A, g.status, FALSE, NoData)
                /\ UNCHANGED inflight
           ELSE IF get_project(project_id) = 0
           THEN /\ Respond("submit_progress", token, project_id, A,
                           HTTP_404_NOT_FOUND, TRUE, NoData)
                /\ UNCHANGED inflight
           ELSE /\ Len(projects[project_id].progress_reports) < MaxReports
                /\ inflight' = [inflight EXCEPT ![p] =
                       [op |-> "submit_progress", token |-> token, project_id |-> project_id,
                        item_name |-> "", quantity |-> percentage_complete, found |-> 0]]
                /\ UNCHANGED last
    /\ UNCHANGED <<users, tokens, now, projects, expenses, created, pending, truePw,
                   inventory, usage, requests, notifications, uploads>>

\* The rest of submit_progress_report: add_progress_report and the answer.
submit_progress_report_push(p) ==
    /\ inflight[p].op = "submit_progress"
    /\ projects' = add_progress_report(inflight[p].project_id, inflight[p].quantity,
                                       inflight[p].token.claims.user_id)
    /\ Respond("submit_progress", inflight[p].token, inflight[p].project_id, {"manager"},
               HTTP_201_CREATED, TRUE, [kind |-> "message"])
    /\ inflight' = [inflight EXCEPT ![p] = Free]
    /\ UNCHANGED <<users, tokens, now, expenses, created, pending, truePw,
                   inventory, usage, requests, notifications, uploads>>

\* ------------------------------------------------------- deleting projects
\* projects_collection.delete_one: the project only, nothing that refers to it.
delete_project(project_id) == [i \in DOMAIN projects \ {project_id} |-> projects[i]]

delete_project_by_id(token, project_id) ==
    /\ LET g == check_user_role({"manager"}, token)
           A == {"manager"}
       IN  IF g.status # HTTP_200_OK
           THEN /\ Respond("delete_project", token, project_id, A, g.status, FALSE, NoData)
                /\ UNCHANGED projects
           ELSE IF get_project(project_id) = 0
           THEN /\ Respond("delete_project", token, project_id, A,
                           HTTP_404_NOT_FOUND, TRUE, NoData)
                /\ UNCHANGED projects
           ELSE /\ projects' = delete_project(project_id)
                /\ Respond("delete_project", token, project_id, A,
                           HTTP_204_NO_CONTENT, TRUE, NoData)
    /\ UNCHANGED <<users, tokens, now, expenses, created, pending, truePw, site>>

\* -------------------------------------------------------- projects: list
\* get_all_projects: the query has the status and the client_id that are
\* given ("" and 0 stand for None).
get_all_projects(status, client_id) ==
    {i \in DOMAIN projects :
         /\ status # "" => projects[i].status = status
         /\ client_id # 0 => projects[i].client_id = client_id}

\* get_projects: role and id are the stored user's (get_current_user).  A
\* client's client_id filter is replaced by the client's own id; for a
\* worker nothing is filtered.
get_projects(token, status, client_id) ==
    /\ LET c == get_current_user(token)
           filter == IF c.user.role = "client" THEN c.user.id ELSE client_id
       IN  IF c.status # HTTP_200_OK
           THEN Respond("list_projects", token, client_id, UserRole, c.status, FALSE, NoData)
           ELSE Respond("list_projects", token, client_id, UserRole, HTTP_200_OK, TRUE,
                        [kind |-> "projects",
                         items |-> {ProjectOut(i) : i \in get_all_projects(status, filter)}])
    /\ UNCHANGED <<users, tokens, now, projects, expenses, created, pending, truePw, site>>

\* ------------------------------------------------------- projects: update
\* The fields of ProjectUpdate.  The model ignores any other key of the
\* request body, and reading any other attribute of the parsed model raises
\* AttributeError.
ProjectUpdateFields == {"name", "description", "start_date", "end_date"}
HasAttr(attr) == attr \in ProjectUpdateFields

\* update_project_details; "" and 0 stand for a field the request leaves
\* out.  The handler reads project_update.client_id right after the
\* existence test, inside the try block whose `except Exception` answers 500.
update_project_details(token, project_id, name, client_id) ==
    /\ LET g == check_user_role({"manager"}, token)
           A == {"manager"}
           req == [name |-> name, client_id |-> client_id]
       IN  IF g.status # HTTP_200_OK
           THEN /\ RespondTo(req, "update_project", token, project_id, A, g.status, FALSE, NoData)
                /\ UNCHANGED projects
           ELSE IF get_project(project_id) = 0
           THEN /\ RespondTo(req, "update_project", token, project_id, A,
                             HTTP_404_NOT_FOUND, TRUE, NoData)
                /\ UNCHANGED projects
           ELSE IF ~HasAttr("client_id")
           THEN /\ RespondTo(req, "update_project", token, project_id, A,
                             HTTP_500_INTERNAL_SERVER_ERROR, TRUE, NoData)
                /\ UNCHANGED projects
           ELSE IF client_id # 0 /\ client_id # projects[project_id].client_id
                      /\ get_user_by_id(client_id) = 0
           THEN /\ RespondTo(req, "update_project", token, project_id, A,
                             HTTP_404_NOT_FOUND, TRUE, NoData)
                /\ UNCHANGED projects
           ELSE IF client_id # 0 /\ client_id # projects[project_id].client_id
                      /\ users[client_id].role # "client"
           THEN /\ RespondTo(req, "update_project", token, project_id, A,
                             HTTP_400_BAD_REQUEST, TRUE, NoData)
                /\ UNCHANGED projects
           ELSE /\ projects' = [projects EXCEPT
                                   ![project_id].name = IF name # "" THEN name ELSE @,
                                   ![project_id].client_id =
                                       IF client_id # 0 THEN client_id ELSE @]
                /\ RespondTo(req, "update_project", token, project_id, A, HTTP_200_OK, TRUE,
                             [kind |-> "project", id |-> project_id,
                              name |-> projects'[project_id].name,
                              client_id |-> projects'[project_id].client_id,
                              progress_reports |-> projects[project_id].progress_reports])
    /\ UNCHANGED <<users, tokens, now, expenses, created, pending, truePw, site>>

\* --------------------------------------------- requests and notifications
\* The keys of a stored project document; project.get(key, "") gives ""
\* (no user, 0) for any other key.
ProjectKeys == {"name", "description", "location", "budget", "start_date", "end_date",
                "client_id", "status", "created_by", "created_at", "progress_reports"}
ProjectGetId(project_id, key) ==
    IF key \notin ProjectKeys THEN 0
    ELSE IF key = "client_id" THEN projects[project_id].client_id
    ELSE IF key = "created_by" THEN projects[project_id].created_by
    ELSE 0

\* create_request: the request is stored with status pending, then a
\* notification for request_data.get("manager_id") (0 for None).
create_request(item_name, project_id, worker_id, manager_id) ==
    LET id == Len(requests) + 1
    IN  /\ requests' = Append(requests,
               [id |-> id, item_name |-> item_name, project_id |-> project_id,
                worker_id |-> worker_id, manager_id |-> manager_id, status |-> "pending"])
        /\ notifications' = Append(notifications,
               [user_id |-> manager_id, type |-> "inventory_request",
                message |-> <<"New inventory request for", item_name>>,
                read |-> FALSE, request_id |-> id])

\* What a create-request body carries.
RequestBody(project_id, worker_id, manager_id) ==
    [project_id |-> project_id, worker_id |-> worker_id, manager_id |-> manager_id]

\* request_inventory_item: no try block, so an exception that is no
\* HTTPException leaves the handler and the server answers 500.
request_inventory_item(token, project_id, worker_id, manager_id) ==
    /\ Len(requests) < MaxRequests
    /\ LET g == check_user_role({"worker"}, token)
           A == {"worker"}
           body == RequestBody(project_id, worker_id, manager_id)
           \* project.get("manager_id", ""), then get_user_by_id
           project_manager == get_user_by_id(ProjectGetId(project_id, "manager_id"))
           stored_manager == IF project_manager # 0 THEN project_manager ELSE manager_id
       IN  IF g.status # HTTP_200_OK
           THEN /\ RespondTo(body, "create_request", token, worker_id, A, g.status, FALSE, NoData)
                /\ UNCHANGED <<requests, notifications>>
           ELSE IF get_project(project_id) = 0
           THEN /\ RespondTo(body, "create_request", token, worker_id, A,
                             HTTP_404_NOT_FOUND, TRUE, NoData)
                /\ UNCHANGED <<requests, notifications>>
           ELSE IF SelfCheck(g.payload, worker_id) = "KeyError"
           THEN /\ RespondTo(body, "create_request", token, worker_id, A,
                             HTTP_500_INTERNAL_SERVER_ERROR, TRUE, NoData)
                /\ UNCHANGED <<requests, notifications>>
           ELSE IF SelfCheck(g.payload, worker_id) = "denied"
           THEN /\ RespondTo(body, "create_request", token, worker_id, A,
                             HTTP_403_FORBIDDEN, TRUE, NoData)
                /\ UNCHANGED <<requests, notifications>>
           ELSE /\ create_request("cement", project_id, worker_id, stored_manager)
                /\ RespondTo(body, "create_request", token, worker_id, A, HTTP_200_OK, TRUE,
                             [kind |-> "request", id |-> Len(requests) + 1,
                              worker_id |-> worker_id, manager_id |-> stored_manager,
                              status |-> "pending"])
    /\ UNCHANGED <<users, tokens, now, projects, expenses, created, pending, truePw,
                   inventory, usage, inflight, uploads>>

get_requests_by_worker(worker_id) ==
    {requests[i] : i \in {j \in 1..Len(requests) : requests[j].worker_id = worker_id}}

get_worker_requests(token, worker_id) ==
    /\ LET g == check_user_role({"worker"}, token)
           A == {"worker"}
       IN  IF g.status # HTTP_200_OK
           THEN Respond("worker_requests", token, worker_id, A, g.status, FALSE, NoData)
           ELSE IF SelfCheck(g.payload, worker_id) = "KeyError"
           THEN Respond("worker_requests", token, worker_id, A,
                        HTTP_500_INTERNAL_SERVER_ERROR, TRUE, NoData)
           ELSE IF SelfCheck(g.payload, worker_id) = "denied"
           THEN Respond("worker_requests", token, worker_id, A, HTTP_403_FORBIDDEN, TRUE, NoData)
           ELSE Respond("worker_requests", token, worker_id, A, HTTP_200_OK, TRUE,
                        [kind |-> "requests", items |-> get_requests_by_worker(worker_id)])
    /\ UNCHANGED <<users, tokens, now, projects, expenses, created, pending, truePw, site>>

\* scripts/demo_data.py seeds requests through create_request, each for a
\* worker and a manager of its choice.
create_demo_inventory_requests(project_id, worker_id, manager_id) ==
    /\ Len(requests) < MaxRequests
    /\ get_project(project_id) # 0
    /\ get_user_by_id(worker_id) # 0 /\ users[worker_id].role = "worker"
    /\ get_user_by_id(manager_id) # 0 /\ users[manager_id].role = "manager"
    /\ create_request("cement", project_id, worker_id, manager_id)
    /\ last' = NoRequest
    /\ UNCHANGED <<users, tokens, now, projects, expenses, created, pending, truePw,
                   inventory, usage, inflight, uploads>>

\* get_notifications as it would be without the filter.
get_all_notifications(user_id) ==
    {notifications[i] : i \in 1..Len(notifications)}

\* notifications_collection.find({"user_id": user_id})
get_notifications(user_id) ==
    {notifications[i] : i \in {j \in 1..Len(notifications) : notifications[j].user_id = user_id}}

\* get_user_notifications: the caller is the stored user (get_current_user).
get_user_notifications(token, user_id) ==
    /\ LET c == get_current_user(token)
       IN  IF c.status # HTTP_200_OK
           THEN Respond("notifications", token, user_id, UserRole, c.status, FALSE, NoData)
           ELSE IF user_id # c.user.id
           THEN Respond("notifications", token, user_id, UserRole, HTTP_403_FORBIDDEN, TRUE, NoData)
           ELSE Respond("notifications", token, user_id, UserRole, HTTP_200_OK, TRUE,
                        [kind |-> "notifications", items |-> get_notifications(user_id)])
    /\ UNCHANGED <<users, tokens, now, projects, expenses, created, pending, truePw, site>>

\* mark_notification_read: update_one with {"$set": {"read": True}},
\* true when modified_count > 0, that is when the notification is stored
\* and was unread.
mark_notification_read(notification_id) ==
    notification_id \in 1..Len(notifications) /\ ~notifications[notification_id].read

\* mark_notification_as_read: any logged-in user, any notification id.
mark_notification_as_read(token, notification_id) ==
    /\ LET c == get_current_user(token)
       IN  IF c.status # HTTP_200_OK
           THEN /\ Respond("mark_read", token, notification_id, UserRole, c.status, FALSE, NoData)
                /\ UNCHANGED notifications
           ELSE IF ~mark_notification_read(notification_id)
           THEN /\ Respond("mark_read", token, notification_id, UserRole,
                           HTTP_500_INTERNAL_SERVER_ERROR, TRUE, NoData)
                /\ UNCHANGED notifications
           ELSE /\ notifications' = [notifications EXCEPT ![notification_id].read = TRUE]
                /\ Respond("mark_read", token, notification_id, UserRole, HTTP_200_OK, TRUE,
                           [kind |-> "message", status |-> "read"])
    /\ UNCHANGED <<users, tokens, now, projects, expenses, created, pending, truePw,
                   inventory, usage, requests, inflight, uploads>>

\* -------------------------------------------------- inventory, material usage
ItemNames == {"cement", "sand"}
Quantities == {10, 20}
UsedQuantities == {3, 12}

\* InventoryItem, the response model of the inventory endpoints:
\* quantity: float = Field(..., gt=0).
InventoryItemValid(item) == item.quantity > 0

ItemOut(id) == [id |-> id, name |-> inventory[id].name,
                quantity |-> inventory[id].quantity,
                project_id |-> inventory[id].project_id]

\* add_item_to_inventory, without an image.  The item is stored before the
\* response is validated.
add_item_to_inventory(token, name, quantity, project_id) ==
    /\ Len(inventory) < MaxItems
    /\ LET g == check_user_role({"manager"}, token)
           A == {"manager"}
           id == Len(inventory) + 1
           item_data == [name |-> name, quantity |-> quantity, project_id |-> project_id,
                         image_url |-> NoImage]
       IN  IF g.status # HTTP_200_OK
           THEN /\ Respond("add_item", token, project_id, A, g.status, FALSE, NoData)
                /\ UNCHANGED inventory
           ELSE IF get_project(project_id) = 0
           THEN /\ Respond("add_item", token, project_id, A, HTTP_404_NOT_FOUND, TRUE, NoData)
                /\ UNCHANGED inventory
           ELSE /\ inventory' = Append(inventory, item_data)
                /\ IF InventoryItemValid(item_data)
                   THEN Respond("add_item", token, project_id, A, HTTP_200_OK, TRUE,
                                [kind |-> "item", id |-> id, name |-> name,
                                 quantity |-> quantity, project_id |-> project_id])
                   ELSE Respond("add_item", token, project_id, A,
                                HTTP_500_INTERNAL_SERVER_ERROR, TRUE, NoData)
    /\ UNCHANGED <<users, tokens, now, projects, expenses, created, pending, truePw,
                   usage, requests, notifications, inflight, uploads>>

\* inventory_collection.find({"project_id": project_id})
get_inventory_by_project(project_id) ==
    {i \in DOMAIN inventory : inventory[i].project_id = project_id}

\* get_inventory_items; the list is validated against List[InventoryItem].
get_inventory_items(token, project_id) ==
    /\ LET g == check_user_role({"manager"}, token)
           A == {"manager"}
           items == get_inventory_by_project(project_id)
       IN  IF g.status # HTTP_200_OK
           THEN Respond("get_inventory", token, project_id, A, g.status, FALSE, NoData)
           ELSE IF get_project(project_id) = 0
           THEN Respond("get_inventory", token, project_id, A, HTTP_404_NOT_FOUND, TRUE, NoData)
           ELSE IF \E i \in items : ~InventoryItemValid(inventory[i])
           THEN Respond("get_inventory", token, project_id, A,
                        HTTP_500_INTERNAL_SERVER_ERROR, TRUE, NoData)
           ELSE Respond("get_inventory", token, project_id, A, HTTP_200_OK, TRUE,
                        [kind |-> "inventory", project_id |-> project_id,
                         items |-> {ItemOut(i) : i \in items}])
    /\ UNCHANGED <<users, tokens, now, projects, expenses, created, pending, truePw, site>>

\* The Python types of the values a document carries in its date field.
\* MaterialUsageBase.date is a datetime.date, and usage_data.dict() keeps it
\* one; the project handlers turn theirs into datetime.datetime "for MongoDB
\* compatibility" before they store them.
UsageDate == "datetime.date"
\* The BSON encoder of insert_one has no encoding for a datetime.date:
\* it raises InvalidDocument and nothing is written.
BsonEncodes(document) == document.date # "datetime.date"

\* inventory_collection.find_one({"name": item_name, "project_id": project_id})
find_inventory_item(item_name, project_id) ==
    LET found == {i \in DOMAIN inventory :
                      inventory[i].name = item_name /\ inventory[i].project_id = project_id}
    IN  IF found = {} THEN 0 ELSE Min(found)

\* log_material_usage: insert_one of the log, then find_one of the item
\* and update_one with {"$inc": {"quantity": -quantity_used}}.
log_material_usage(usage_data) ==
    IF ~BsonEncodes(usage_data)
    THEN [raised |-> TRUE, usage |-> usage, inventory |-> inventory]
    ELSE LET inventory_item == find_inventory_item(usage_data.item_name, usage_data.project_id)
         IN  [raised |-> FALSE,
              usage |-> Append(usage, usage_data),
              inventory |->
                  IF inventory_item # 0
                  THEN [inventory EXCEPT ![inventory_item].quantity = @ - usage_data.quantity_used]
                  ELSE inventory]

\* log_daily_material_usage: there is no try block, an exception of
\* log_material_usage leaves the handler and is answered with 500.
log_daily_material_usage(token, item_name, quantity_used, project_id) ==
    /\ LET g == check_user_role({"manager"}, token)
           A == {"manager"}
           usage_data == [item_name |-> item_name, quantity_used |-> quantity_used,
                          date |-> UsageDate, project_id |-> project_id]
           logged == log_material_usage(usage_data)
           req == [item_name |-> item_name, quantity_used |-> quantity_used]
       IN  IF g.status # HTTP_200_OK
           THEN /\ RespondTo(req, "log_usage", token, project_id, A, g.status, FALSE, NoData)
                /\ UNCHANGED <<usage, inventory>>
           ELSE IF get_project(project_id) = 0
           THEN /\ RespondTo(req, "log_usage", token, project_id, A, HTTP_404_NOT_FOUND, TRUE, NoData)
                /\ UNCHANGED <<usage, inventory>>
           ELSE IF logged.raised
           THEN /\ RespondTo(req, "log_usage", token, project_id, A,
                             HTTP_500_INTERNAL_SERVER_ERROR, TRUE, NoData)
                /\ UNCHANGED <<usage, inventory>>
           ELSE /\ usage' = logged.usage
                /\ inventory' = logged.inventory
                /\ RespondTo(req, "log_usage", token, project_id, A, HTTP_200_OK, TRUE,
                             [kind |-> "usage", item_name |-> item_name,
                              quantity_used |-> quantity_used, project_id |-> project_id])
    /\ UNCHANGED <<users, tokens, now, projects, expenses, created, pending, truePw,
                   requests, notifications, inflight, uploads>>

\* ------------------------------------------- the upload handlers, in steps
\* add_project_expense up to `await add_expense(...)`: the gate, the
\* existence test and the write of the receipt.  A failed write leaves
\* through the inner `except Exception` with a 500.
add_project_expense_save(p, token, amount, project_id, outcome) ==
    /\ inflight[p] = Free
    /\ created.expenses
           + Cardinality({q \in Procs : inflight[q].op = "add_expense"}) < MaxExpenses
    /\ Cardinality(uploads) < MaxFiles
    /\ LET g == check_user_role({"manager"}, token)
           A == {"manager"}
           receipt_filename == uuid4
       IN  IF g.status # HTTP_200_OK
           THEN /\ Respond("add_expense", token, project_id, A, g.status, FALSE, NoData)
                /\ UNCHANGED <<inflight, uploads>>
           ELSE IF get_project(project_id) = 0
           THEN /\ Respond("add_expense", token, project_id, A, HTTP_404_NOT_FOUND, TRUE, NoData)
                /\ UNCHANGED <<inflight, uploads>>
           ELSE /\ uploads' = save_upload("uploads/receipts", receipt_filename, outcome)
                /\ IF outcome # "saved"
                   THEN /\ Respond("add_expense", token, project_id, A,
                                   HTTP_500_INTERNAL_SERVER_ERROR, TRUE, NoData)
                        /\ UNCHANGED inflight
                   ELSE /\ inflight' = [inflight EXCEPT ![p] =
                               [op |-> "add_expense", token |-> token,
                                project_id |-> project_id, item_name |-> "",
                                quantity |-> amount, found |-> receipt_filename]]
                        /\ UNCHANGED last
    /\ UNCHANGED <<users, tokens, now, projects, expenses, created, pending, truePw,
                   inventory, usage, requests, notifications>>

\* The rest of add_project_expense: add_expense, and the response.
add_project_expense_insert(p) ==
    /\ inflight[p].op = "add_expense"
    /\ LET id == created.expenses + 1
           doc == [amount |-> inflight[p].quantity, project_id |-> inflight[p].project_id,
                   receipt_url |-> UploadUrl("/receipts", inflight[p].found),
                   verified |-> "pending"]
       IN  /\ expenses' = expenses @@ (id :> doc)
           /\ created' = [created EXCEPT !.expenses = id]
           /\ IF ExpenseValid(doc)
              THEN Respond("add_expense", inflight[p].token, id, {"manager"}, HTTP_200_OK, TRUE,
                           [kind |-> "expense", id |-> id, amount |-> doc.amount,
                            project_id |-> doc.project_id, verified |-> "pending"])
              ELSE Respond("add_expense", inflight[p].token, id, {"manager"},
                           HTTP_500_INTERNAL_SERVER_ERROR, TRUE, NoData)
    /\ inflight' = [inflight EXCEPT ![p] = Free]
    /\ UNCHANGED <<users, tokens, now, projects, pending, truePw,
                   inventory, usage, requests, notifications, uploads>>

\* add_item_to_inventory up to `await add_inventory_item(...)`; item_image
\* is optional, and image_url stays None without one.
add_item_to_inventory_save(p, token, name, quantity, project_id, item_image, outcome) ==
    /\ inflight[p] = Free
    /\ Len(inventory)
           + Cardinality({q \in Procs : inflight[q].op = "add_item"}) < MaxItems
    /\ Cardinality(uploads) < MaxFiles
    /\ LET g == check_user_role({"manager"}, token)
           A == {"manager"}
           image_filename == uuid4
       IN  IF g.status # HTTP_200_OK
           THEN /\ Respond("add_item", token, project_id, A, g.status, FALSE, NoData)
                /\ UNCHANGED <<inflight, uploads>>
           ELSE IF get_project(project_id) = 0
           THEN /\ Respond("add_item", token, project_id, A, HTTP_404_NOT_FOUND, TRUE, NoData)
                /\ UNCHANGED <<inflight, uploads>>
           ELSE IF ~item_image
           THEN /\ inflight' = [inflight EXCEPT ![p] =
                       [op |-> "add_item", token |-> token, project_id |-> project_id,
                        item_name |-> name, quantity |-> quantity, found |-> 0]]
                /\ UNCHANGED <<last, uploads>>
           ELSE /\ uploads' = save_upload("uploads/inventory", image_filename, outcome)
                /\ IF outcome # "saved"
                   THEN /\ Respond("add_item", token, project_id, A,
                                   HTTP_500_INTERNAL_SERVER_ERROR, TRUE, NoData)
                        /\ UNCHANGED inflight
                   ELSE /\ inflight' = [inflight EXCEPT ![p] =
                               [op |-> "add_item", token |-> token,
                                project_id |-> project_id, item_name |-> name,
                                quantity |-> quantity, found |-> image_filename]]
                        /\ UNCHANGED last
    /\ UNCHANGED <<users, tokens, now, projects, expenses, created, pending, truePw,
                   inventory, usage, requests, notifications>>

\* The rest of add_item_to_inventory: add_inventory_item, and the response.
add_item_to_inventory_insert(p) ==
    /\ inflight[p].op = "add_item"
    /\ LET id == Len(inventory) + 1
           item_data == [name |-> inflight[p].item_name, quantity |-> inflight[p].quantity,
                         project_id |-> inflight[p].project_id,
                         image_url |-> IF inflight[p].found = 0 THEN NoImage
                                       ELSE UploadUrl("/inventory-images", inflight[p].found)]
       IN  /\ inventory' = Append(inventory, item_data)
           /\ IF InventoryItemValid(item_data)
              THEN Respond("add_item", inflight[p].token, inflight[p].project_id, {"manager"},
                           HTTP_200_OK, TRUE,
                           [kind |-> "item", id |-> id, name |-> item_data.name,
                            quantity |-> item_data.quantity,
                            project_id |-> item_data.project_id])
              ELSE Respond("add_item", inflight[p].token, inflight[p].project_id, {"manager"},
                           HTTP_500_INTERNAL_SERVER_ERROR, TRUE, NoData)
    /\ inflight' = [inflight EXCEPT ![p] = Free]
    /\ UNCHANGED <<users, tokens, now, projects, expenses, created, pending, truePw,
                   usage, requests, notifications, uploads>>

\* --------------------------------------------------------- specifications
\* The accounts of the scenarios, registered in this order: a manager, two
\* clients and a worker.
Roster == << [username |-> "alice", email |-> "a@x.io", role |-> "manager"],
             [username |-> "bob",   email |-> "b@x.io", role |-> "client"],
             [username |-> "carol", email |-> "c@x.io", role |-> "client"],
             [username |-> "dave",  email |-> "d@x.io", role |-> "worker"] >>
\* The next account of the roster, and those already registered.
RosterInputs == {Roster[i] : i \in {j \in 1..Len(Roster) : j <= created.users + 1}}

RegisterRoster == \E r \in RosterInputs : register_user(r.username, r.email, r.role, "secret1")
LoginAny == \E u \in Usernames, p \in Passwords : login_for_access_token(u, p)
CreateProject == \E t \in Presentable, c \in 1..MaxUsers : create_project(t, "site", c)
GetProject == \E t \in Presentable, p \in 1..MaxProjects : get_project_by_id(t, p)
GetStats == \E t \in Presentable, p \in 1..MaxProjects : get_project_stats(t, p)

\* The token layer: accounts, logins, the clock, and gated endpoints that
\* read and write, called with every presentable Authorization header.
RegisterAuth == created.users < AuthUsers /\ RegisterRoster
LoginAuth == Cardinality(tokens) < MaxTokens /\ LoginAny
NextAuth ==
    \/ RegisterAuth
    \/ LoginAuth
    \/ Tick
    \/ CreateProject
    \/ GetProject
    \/ GetStats
SpecAuth == Init /\ [][NextAuth]_vars

\* ------------------------------------------------------------ the role gate
\* The endpoints behind Depends(check_user_role(...)).
GatedOps == {"create_staff", "update_user", "create_project", "get_progress",
             "get_summary", "add_expense", "list_expenses", "verify"}

\* A header is no valid token: missing, no JWT, signed with another key, or
\* past its exp.
InvalidToken(token) ==
    \/ token.kind # "jwt"
    \/ token.key # SECRET_KEY
    \/ token.claims.exp < now
    \/ token.claims.role = ""
\* A valid token whose role the endpoint does not allow.
WrongRole(token, allowed) == ~InvalidToken(token) /\ token.claims.role \notin allowed

\* C1: a request to an endpoint behind check_user_role whose token is
\* missing, malformed, wrongly signed, expired or of a role that is not
\* allowed never runs the handler body: the step leaves every collection
\* as it was, and the response carries no data and is no success.
C1_GateBlocksHandler ==
    [][ (/\ last'.op \in GatedOps
         /\ InvalidToken(last'.token) \/ WrongRole(last'.token, last'.allowed))
        => /\ store' = store
           /\ ~last'.entered
           /\ last'.body = NoData
           /\ last'.status # HTTP_200_OK ]_vars

\* A token login issued, of a role the endpoint does not allow, was turned
\* away from a writing endpoint.
C1_Witness ==
    /\ last.op = "create_project"
    /\ last.token \in Issued
    /\ WrongRole(last.token, last.allowed)
    /\ ~last.entered

\* C2: the role gate answers 401 for an absent or invalid token and 403
\* for a valid token whose role is not allowed.
C2_GateStatus ==
    last.op \in GatedOps =>
        /\ InvalidToken(last.token) => last.status = HTTP_401_UNAUTHORIZED
        /\ WrongRole(last.token, last.allowed) => last.status = HTTP_403_FORBIDDEN

\* C3: a token login issued decodes, at any time before issuance + 24 h,
\* to the username, user id and role of the user it was issued for; after
\* that time both gates answer it with 401.
Expiry(issue) == issue.at + 24 * 60

C3_TokenRoundTrip ==
    \A i \in tokens :
        LET d == JwtDecode(i.token, SECRET_KEY, now)
        IN  /\ now < Expiry(i) =>
                /\ d.ok
                /\ d.claims.sub = i.username
                /\ d.claims.user_id = i.user_id
                /\ d.claims.role = i.role
                /\ check_user_role(UserRole, i.token).payload = d.claims
                /\ get_current_user(i.token).user.token_payload = d.claims
            /\ now > Expiry(i) =>
                /\ ~d.ok
                /\ check_user_role(UserRole, i.token).status = HTTP_401_UNAUTHORIZED
                /\ get_current_user(i.token).status = HTTP_401_UNAUTHORIZED
                /\ (last.token = i.token /\ last.op \in GatedOps \cup {"get_project"})
                       => last.status = HTTP_401_UNAUTHORIZED

\* An issued token was presented after its expiry and answered 401.
C3_Witness ==
    \E i \in tokens :
        /\ now > Expiry(i)
        /\ last.token = i.token
        /\ last.op = "get_project"
        /\ last.status = HTTP_401_UNAUTHORIZED

\* ------------------------------------------------------- the user store
\* Accounts: register, create-staff and the manager's update with free
\* usernames, e-mail addresses and passwords, and logins.
UserNames == {"alice", "bob"}
UserEmails == {"a@x.io", "b@x.io"}
RegisterFree ==
    \E u \in UserNames, e \in UserEmails :
        register_user(u, e, "manager", "secret1")
CreateStaffFree ==
    \E t \in Issued \cup {NoToken}, u \in UserNames, e \in UserEmails,
       r \in {"worker", "client"} :
        create_staff_account(t, u, e, r, "secret1")
UpdateUserFree ==
    \E t \in Issued \cup {NoToken}, i \in 1..MaxUsers, e \in UserEmails \cup {""},
       p \in Passwords \cup {""} :
        update_user_by_id(t, i, e, "", p)
LoginFree == \E u \in UserNames, p \in Passwords : login_for_access_token(u, p)

NextUsers ==
    \/ RegisterFree
    \/ CreateStaffFree
    \/ UpdateUserFree
    \/ LoginFree
SpecUsers == Init /\ [][NextUsers]_vars

\* C4: register or create-staff with a username or an e-mail address that
\* a stored user already holds fails with a 400/409 and leaves the user
\* store unchanged.
C4_DuplicateRejected ==
    [][ (/\ last'.op \in {"register", "create_staff"}
         /\ last'.entered
         /\ \E i \in DOMAIN users :
                \/ users[i].username = last'.req.username
                \/ users[i].email = last'.req.email)
        => /\ last'.status \in {HTTP_400_BAD_REQUEST, 409}
           /\ users' = users ]_vars

\* C6: no stored user document holds a password as supplied: the
\* credential fields hold a bcrypt hash (or are absent), and no other field
\* holds a password.
C6_NoPlaintextPassword ==
    \A i \in DOMAIN users :
        /\ users[i].hashed_password.enc = "bcrypt"
        /\ users[i].password.enc \in {"absent", "bcrypt"}
        /\ users[i].username \notin Passwords
        /\ users[i].email \notin Passwords
        /\ users[i].role \notin Passwords

\* A manager's update has set a user's password.
C6_Witness ==
    /\ last.op = "update_user"
    /\ last.status = HTTP_200_OK
    /\ last.req.password \in Passwords
    /\ last.arg \in DOMAIN users
    /\ users[last.arg].password.enc = "bcrypt"
    /\ users[last.arg].password.of = last.req.password

\* C7: login issues a token exactly when the username is stored and the
\* password is the one last set for that user (at registration or by the
\* latest update); otherwise it answers 401 without a token.
C7_LoginIffLatestPassword ==
    last.op = "login" =>
        LET id == get_user_by_username(last.req.username)
        IN  IF id # 0 /\ last.req.password = truePw[id]
            THEN last.status = HTTP_200_OK /\ last.body.kind = "token"
            ELSE last.status = HTTP_401_UNAUTHORIZED /\ last.body = NoData

\* ---------------------------------------------------- concurrent requests
\* Register and create-staff requests in flight together, each between its
\* username lookup and its insert, beside logins and e-mail updates.
RegisterLookup ==
    \E p \in Procs, u \in UserNames, e \in UserEmails :
        register_lookup(p, u, e, "manager", "secret1")
CreateStaffLookup ==
    \E p \in Procs, t \in Issued, u \in UserNames, e \in UserEmails :
        create_staff_lookup(p, t, u, e, "worker", "secret1")
UserInsert == \E p \in Procs : user_insert(p)
LoginRace == \E u \in UserNames : login_for_access_token(u, "secret1")
UpdateEmail ==
    \E t \in Issued, i \in 1..MaxUsers, e \in UserEmails : update_user_by_id(t, i, e, "", "")

NextRace ==
    \/ RegisterLookup
    \/ CreateStaffLookup
    \/ UserInsert
    \/ LoginRace
    \/ UpdateEmail
SpecRace == Init /\ [][NextRace]_vars

\* C5: in every reachable state, whatever the interleaving of register,
\* create-staff and update requests, no two stored users share a username
\* and no two share an e-mail address.
C5_UsersUnique ==
    \A i, j \in DOMAIN users :
        i # j => /\ users[i].username # users[j].username
                 /\ users[i].email # users[j].email

\* Two requests passed the lookup for one username; the first insert went
\* through and the second was refused by the store.
C5_Witness ==
    /\ last.op \in {"register", "create_staff"}
    /\ last.status = HTTP_500_INTERNAL_SERVER_ERROR
    /\ get_user_by_username(last.req.username) # 0
    /\ \A i \in DOMAIN users : users[i].email # last.req.email

\* ------------------------------------------------- projects and expenses
\* The roster's accounts, their logins, the manager's projects and expenses,
\* and every read and verify request the issued tokens can make.
\* Logins follow the roster's order, like the registrations.
LoginRoster ==
    \E i \in 1..Len(Roster) :
        /\ i <= Cardinality(tokens) + 1
        /\ login_for_access_token(Roster[i].username, "secret1")
CallerTokens == Issued \cup {NoToken}
AddExpense ==
    \E t \in CallerTokens, a \in Amounts, p \in 1..MaxProjects :
        add_project_expense(t, a, p, "saved")
ListExpenses == \E t \in CallerTokens, p \in 1..MaxProjects : get_project_expenses(t, p)
VerifyExpense ==
    \E t \in CallerTokens, e \in 1..MaxExpenses, s \in VerificationStatus :
        verify_expense_authenticity(t, e, s)
CreateProjectFor == \E t \in CallerTokens, c \in 1..MaxUsers : create_project(t, "site", c)
ReadProject == \E t \in CallerTokens, p \in 1..MaxProjects : get_project_by_id(t, p)
ReadProgress == \E t \in CallerTokens, p \in 1..MaxProjects : get_project_progress(t, p)
ReadStats == \E t \in CallerTokens, p \in 1..MaxProjects : get_project_stats(t, p)

NextProjects ==
    \/ RegisterRoster
    \/ LoginRoster
    \/ CreateProjectFor
    \/ ReadProject
    \/ ReadProgress
    \/ ReadStats
    \/ AddExpense
    \/ ListExpenses
    \/ VerifyExpense
SpecProjects == Init /\ [][NextProjects]_vars

\* The caller of the last request is a logged-in user of the given role.
CallerIs(role) == last.token \in Issued /\ last.token.claims.role = role
\* The caller of the last request is the client of the project.
CallerOwns(project_id) ==
    CallerIs("client") /\ last.token.claims.user_id = projects[project_id].client_id
ReadOps == {"get_project", "get_progress", "get_summary"}

\* C8: get project by id, progress reports and summary of an existing
\* project answer a client that is not the project's client with 403 and
\* no project data, and answer the project's client and every manager
\* with 200 and the data.
C8_ProjectReadOwnership ==
    (last.op \in ReadOps /\ last.arg \in DOMAIN projects) =>
        /\ (CallerIs("client") /\ ~CallerOwns(last.arg)) =>
               last.status = HTTP_403_FORBIDDEN /\ last.body = NoData
        /\ (CallerOwns(last.arg) \/ CallerIs("manager")) =>
               last.status = HTTP_200_OK /\ last.body # NoData

\* A client was refused the summary of another client's project.
C8_Witness ==
    /\ last.op = "get_summary"
    /\ last.arg \in DOMAIN projects
    /\ CallerIs("client")
    /\ ~CallerOwns(last.arg)
    /\ last.status = HTTP_403_FORBIDDEN

\* C9: listing the expenses of an existing project answers a client that
\* is not the project's client with 403, and answers the project's client
\* and every manager with 200 and the expenses.
C9_ListExpensesOwnership ==
    (last.op = "list_expenses" /\ last.arg \in DOMAIN projects) =>
        /\ (CallerIs("client") /\ ~CallerOwns(last.arg)) =>
               last.status = HTTP_403_FORBIDDEN
        /\ (CallerOwns(last.arg) \/ CallerIs("manager")) =>
               last.status = HTTP_200_OK /\ last.body.kind = "expenses"

\* C10: an expense's verification status is pending, approved or flagged;
\* it is pending when the expense is created; and a step changes it only
\* when the step is a verify request for that expense made with the token
\* of the client of the expense's project.
C10_VerificationStatus ==
    [][ /\ \A e \in DOMAIN expenses' : expenses'[e].verified \in VerificationStatus
        /\ \A e \in DOMAIN expenses' \ DOMAIN expenses : expenses'[e].verified = "pending"
        /\ \A e \in DOMAIN expenses :
               (e \notin DOMAIN expenses' \/ expenses'[e].verified # expenses[e].verified)
               => /\ last'.op = "verify"
                  /\ last'.arg = e
                  /\ last'.token \in Issued
                  /\ last'.token.claims.role = "client"
                  /\ last'.token.claims.user_id = projects[expenses[e].project_id].client_id
      ]_vars

\* A client asked to approve a pending expense of another client's project
\* and the expense is still pending.
C10_Witness ==
    /\ last.op = "verify"
    /\ last.arg \in DOMAIN expenses
    /\ CallerIs("client")
    /\ ~CallerOwns(expenses[last.arg].project_id)
    /\ last.status # HTTP_200_OK
    /\ expenses[last.arg].verified = "pending"

\* ------------------------------------------- requests and notifications
\* The roster's accounts and their logins, the manager's projects, workers'
\* requests through the API, seeded requests, and everyone's reading.
\* The ids requests name: the manager's and the worker's of the roster.
SiteIds == {1, 4}
CreateProjectSite == \E t \in CallerTokens : create_project(t, "site", 2)
CreateRequest ==
    \E t \in CallerTokens, p \in 1..MaxProjects, w \in SiteIds, m \in {0, 1} :
        request_inventory_item(t, p, w, m)
WorkerRequests == \E t \in CallerTokens, w \in SiteIds : get_worker_requests(t, w)
SeedRequests ==
    \E p \in 1..MaxProjects, w \in SiteIds, m \in SiteIds :
        create_demo_inventory_requests(p, w, m)
ListNotifications == \E t \in CallerTokens, u \in SiteIds : get_user_notifications(t, u)
MarkRead == \E t \in CallerTokens, n \in 1..MaxRequests : mark_notification_as_read(t, n)

NextSite ==
    \/ RegisterRoster
    \/ LoginRoster
    \/ CreateProjectSite
    \/ CreateRequest
    \/ WorkerRequests
    \/ SeedRequests
    \/ ListNotifications
    \/ MarkRead
SpecSite == Init /\ [][NextSite]_vars

\* The id the caller of the last request logged in with.
CallerId == last.token.claims.user_id

\* C11: a worker's create-request for an existing project is answered 403
\* when its worker_id is not the caller's id and succeeds when it is; a
\* worker's listing of requests is answered 403 for another worker_id and
\* succeeds for the caller's own.
C11_WorkerSelfScope ==
    /\ (/\ last.op = "create_request"
        /\ CallerIs("worker")
        /\ last.req.project_id \in DOMAIN projects)
       => IF last.arg # CallerId
          THEN last.status = HTTP_403_FORBIDDEN
          ELSE last.status = HTTP_200_OK
    /\ (last.op = "worker_requests" /\ CallerIs("worker"))
       => IF last.arg # CallerId
          THEN last.status = HTTP_403_FORBIDDEN
          ELSE last.status = HTTP_200_OK /\ last.body.kind = "requests"

\* C12: a worker's create-request for themselves on an existing project
\* stores the request with status pending and one unread notification of
\* type inventory_request, linked to the request, for the manager of the
\* project.
C12_RequestNotifiesManager ==
    (/\ last.op = "create_request"
     /\ CallerIs("worker")
     /\ last.req.project_id \in DOMAIN projects
     /\ last.arg = CallerId)
    => /\ last.status = HTTP_200_OK
       /\ last.body.kind = "request"
       /\ requests # <<>>
       /\ requests[last.body.id].status = "pending"
       /\ Len(notifications) = Len(requests)
       /\ notifications[last.body.id] =
              [user_id |-> projects[last.req.project_id].created_by,
               type |-> "inventory_request",
               message |-> <<"New inventory request for", requests[last.body.id].item_name>>,
               read |-> FALSE, request_id |-> last.body.id]

DeleteUser == \E t \in CallerTokens, u \in 1..MaxUsers : delete_user_by_id(t, u)
NextDelete ==
    \/ RegisterRoster
    \/ LoginRoster
    \/ DeleteUser
SpecDelete == Init /\ [][NextDelete]_vars

\* C14: a manager's delete of their own id is answered 400 and leaves the
\* users as they were; of another stored user it succeeds and removes that
\* user and no other; of an id that is not stored it is answered 404.
C14_DeleteUser ==
    [][ (/\ last'.op = "delete_user"
         /\ last'.token \in Issued
         /\ last'.token.claims.role = "manager")
        => IF last'.arg \notin DOMAIN users
           THEN last'.status = HTTP_404_NOT_FOUND /\ users' = users
           ELSE IF last'.arg = last'.token.claims.user_id
           THEN last'.status = HTTP_400_BAD_REQUEST /\ users' = users
           ELSE /\ last'.status \in {HTTP_200_OK, HTTP_204_NO_CONTENT}
                /\ users' = delete_user(last'.arg) ]_vars

\* ------------------------------------------- progress reports and summary
\* A manager and a client, the manager's projects, progress reports and
\* summary requests in flight together, and project deletes between them.
SubmitProgress ==
    \E p \in Procs, t \in Issued, i \in 1..MaxProjects, c \in Percentages :
        submit_progress_report(p, t, i, c)
PushProgress == \E p \in Procs : submit_progress_report_push(p)
StatsCheck == \E p \in Procs, t \in Issued, i \in 1..MaxProjects : get_project_stats_check(p, t, i)
StatsReturn == \E p \in Procs : get_project_stats_return(p)
DeleteProject == \E t \in Issued, i \in 1..MaxProjects : delete_project_by_id(t, i)

\* Each account of the roster logs in once, in the roster's order; the
\* manager creates one project.
LoginOnce ==
    \E i \in 1..Len(Roster) :
        /\ i = Cardinality(tokens) + 1
        /\ i <= created.users
        /\ login_for_access_token(Roster[i].username, "secret1")
CreateOneProject == created.projects = 0 /\ CreateProjectSite

NextProgress ==
    \/ RegisterAuth
    \/ LoginOnce
    \/ CreateOneProject
    \/ SubmitProgress
    \/ PushProgress
    \/ StatsCheck
    \/ StatsReturn
    \/ DeleteProject
SpecProgress == Init /\ [][NextProgress]_vars

\* The percentage of the report that is last in a list, 0 for no report.
LastPercentage(reports) ==
    IF Len(reports) = 0 THEN 0 ELSE reports[Len(reports)].percentage_complete

\* C15: in every step the report list of a project stays as it is or gets
\* one report appended at its end; the summary of every project, and every
\* summary the endpoint answers with, has as progress_percentage the
\* percentage of the last report of the list, or 0 for an empty list.
C15_LatestProgress ==
    [][ /\ \A i \in DOMAIN projects \cap DOMAIN projects' :
               LET old == projects[i].progress_reports
                   new == projects'[i].progress_reports
               IN  \/ new = old
                   \/ Len(new) = Len(old) + 1 /\ SubSeq(new, 1, Len(old)) = old
        /\ \A i \in DOMAIN projects' :
               get_project_summary(i)'.progress_percentage
                   = LastPercentage(projects'[i].progress_reports)
        /\ (last'.op = "get_summary" /\ last'.status = HTTP_200_OK)
               => last'.body.progress_percentage
                      = LastPercentage(projects'[last'.arg].progress_reports)
      ]_vars

\* A summary was answered for a project with two reports of different
\* percentages, carrying the second one's.
C15_Witness ==
    /\ last.op = "get_summary"
    /\ last.status = HTTP_200_OK
    /\ last.arg \in DOMAIN projects
    /\ Len(projects[last.arg].progress_reports) = 2
    /\ projects[last.arg].progress_reports[1].percentage_complete
           # projects[last.arg].progress_reports[2].percentage_complete
    /\ last.body.progress_percentage
           = projects[last.arg].progress_reports[2].percentage_complete

\* C18: a summary request of a manager or a client is answered with a
\* complete summary, 403 or 404, never with 500 and never with an empty or
\* partial summary, whatever happens to the project meanwhile.
C18_SummaryOrNotFound ==
    (/\ last.op = "get_summary"
     /\ CallerIs("manager") \/ CallerIs("client"))
    => /\ last.status \in {HTTP_200_OK, HTTP_403_FORBIDDEN, HTTP_404_NOT_FOUND}
       /\ last.status = HTTP_200_OK => ProjectSummaryValid(last.body)

\* ------------------------------------------------- the summary as a function
\* get_project_summary over the contents of the collections.  The initial
\* states hold a manager, a client and the client's two projects, and every
\* choice of up to MaxDocs expense and usage documents that satisfy the field
\* constraints of their models; the summary endpoint is then called.  An
\* expense leaves pending where verify_expense is called directly, as the
\* demo seeding does; the usage documents are those of a writer that stores
\* the date as a datetime.
DrawnAmounts == {25, 40}
DrawnProjects == {1, 2}
ExpenseInputs == [amount : DrawnAmounts, project_id : DrawnProjects,
                  verified : VerificationStatus]
UsageInputs == [item_name : ItemNames, quantity_used : UsedQuantities,
                date : {"datetime.datetime"}, project_id : DrawnProjects]

RosterUser(i) == [username |-> Roster[i].username, email |-> Roster[i].email,
                  role |-> Roster[i].role,
                  hashed_password |-> get_password_hash("secret1", i),
                  password |-> Absent]

InitSummary ==
    /\ users = (1 :> RosterUser(1)) @@ (2 :> RosterUser(2))
    /\ truePw = (1 :> "secret1") @@ (2 :> "secret1")
    /\ tokens = {}
    /\ now = 0
    /\ projects = [i \in DrawnProjects |->
                      [name |-> "site", client_id |-> 2, status |-> "planning",
                       created_by |-> 1, progress_reports |-> <<>>]]
    /\ \E ne \in 0..MaxDocs : \E nu \in 0..(MaxDocs - ne) :
           \E f \in [1..ne -> ExpenseInputs], g \in [1..nu -> UsageInputs] :
               /\ expenses = [e \in 1..ne |->
                                 [amount |-> f[e].amount, project_id |-> f[e].project_id,
                                  receipt_url |-> UploadUrl("/receipts", e),
                                  verified |-> f[e].verified]]
               /\ usage = g
               /\ created = [users |-> 2, projects |-> 2, expenses |-> ne, salts |-> 2]
    /\ pending = [p \in Procs |-> Idle]
    /\ last = NoRequest
    /\ inventory = <<>>
    /\ requests = <<>>
    /\ notifications = <<>>
    /\ inflight = [p \in Procs |-> Free]
    /\ uploads = {UploadPath("uploads/receipts", e) : e \in DOMAIN expenses}

GetSummary == \E t \in Issued, i \in 1..MaxProjects : get_project_stats(t, i)
NextSummary ==
    \/ LoginOnce
    \/ GetSummary
SpecSummary == InitSummary /\ [][NextSummary]_vars

\* The amounts of the first n expenses that belong to the project, added up.
RECURSIVE ExpenseTotal(_, _)
ExpenseTotal(project_id, n) ==
    IF n = 0 THEN 0
    ELSE ExpenseTotal(project_id, n - 1)
             + (IF expenses[n].project_id = project_id THEN expenses[n].amount ELSE 0)

\* C16: the total_expenses of a summary is the sum of the amounts of all
\* expenses stored for the project, pending, approved and flagged alike, and
\* its expenses_count is the number of those expenses.
C16_TotalExpenses ==
    (last.op = "get_summary" /\ last.status = HTTP_200_OK)
    => /\ last.body.total_expenses = ExpenseTotal(last.arg, Len(expenses))
       /\ last.body.expenses_count
              = Cardinality({e \in DOMAIN expenses : expenses[e].project_id = last.arg})

\* A summary of a project with a pending and an approved expense, both
\* counted and both in the total.
C16_Witness ==
    /\ last.op = "get_summary"
    /\ last.status = HTTP_200_OK
    /\ \E a, b \in DOMAIN expenses :
           /\ expenses[a].project_id = last.arg /\ expenses[a].verified = "pending"
           /\ expenses[b].project_id = last.arg /\ expenses[b].verified = "approved"
           /\ last.body.total_expenses = expenses[a].amount + expenses[b].amount
    /\ last.body.expenses_count = 2

\* The logs among the first n that belong to the project and name an item
\* of the set, and their quantities added up.
LogsOf(project_id, names, n) ==
    {k \in 1..n : usage[k].project_id = project_id /\ usage[k].item_name \in names}

RECURSIVE UsedTotal(_, _, _)
UsedTotal(project_id, names, n) ==
    IF n = 0 THEN 0
    ELSE UsedTotal(project_id, names, n - 1)
             + (IF n \in LogsOf(project_id, names, n) THEN usage[n].quantity_used ELSE 0)

RECURSIVE SumValues(_, _)
SumValues(f, keys) ==
    IF keys = {} THEN 0
    ELSE LET k == CHOOSE x \in keys : TRUE
         IN  f[k] + SumValues(f, keys \ {k})

\* C17: the material_usage of a summary has exactly the item names of the
\* project's usage logs as keys, each mapped to the sum of quantity_used
\* over the logs of that name; its values add up to the quantity_used of
\* all the project's logs, whose number is material_usage_count.
C17_MaterialUsage ==
    (last.op = "get_summary" /\ last.status = HTTP_200_OK)
    => LET material_usage == last.body.material_usage
           n == Len(usage)
       IN  /\ DOMAIN material_usage
                  = {usage[k].item_name : k \in LogsOf(last.arg, ItemNames, n)}
           /\ \A name \in DOMAIN material_usage :
                  material_usage[name] = UsedTotal(last.arg, {name}, n)
           /\ SumValues(material_usage, DOMAIN material_usage)
                  = UsedTotal(last.arg, ItemNames, n)
           /\ last.body.material_usage_count
                  = Cardinality(LogsOf(last.arg, ItemNames, n))

\* A summary of a project with two logs of different quantities for the
\* same item, which it maps to their sum.
C17_Witness ==
    /\ last.op = "get_summary"
    /\ last.status = HTTP_200_OK
    /\ \E a, b \in LogsOf(last.arg, ItemNames, Len(usage)) :
           /\ a # b
           /\ usage[a].item_name = usage[b].item_name
           /\ usage[a].quantity_used # usage[b].quantity_used
           /\ last.body.material_usage[usage[a].item_name]
                  = usage[a].quantity_used + usage[b].quantity_used
    /\ last.body.material_usage_count = 2

\* ------------------------------------------------------ the site's materials
\* A manager and a client, the manager's project, its inventory items, and
\* usage logged against them.
AddItem ==
    \E t \in Issued, n \in ItemNames, q \in Quantities, i \in 1..MaxProjects :
        add_item_to_inventory(t, n, q, i)
LogUsage ==
    \E t \in Issued, n \in ItemNames, u \in UsedQuantities, i \in 1..MaxProjects :
        log_daily_material_usage(t, n, u, i)
ReadInventory == \E t \in Issued, i \in 1..MaxProjects : get_inventory_items(t, i)

NextMaterials ==
    \/ RegisterAuth
    \/ LoginOnce
    \/ CreateOneProject
    \/ AddItem
    \/ LogUsage
    \/ ReadInventory
SpecMaterials == Init /\ [][NextMaterials]_vars

\* The step answers a manager's usage log for an item that the project's
\* inventory holds.
UsageLogged ==
    /\ last'.op = "log_usage"
    /\ last'.token \in Issued
    /\ last'.token.claims.role = "manager"
    /\ last'.arg \in DOMAIN projects
    /\ find_inventory_item(last'.req.item_name, last'.arg) # 0

\* The quantity_used of the stored logs for an inventory item, added up.
RECURSIVE LoggedFor(_, _, _)
LoggedFor(logs, name, project_id) ==
    IF logs = <<>> THEN 0
    ELSE LoggedFor(Tail(logs), name, project_id)
             + (IF Head(logs).item_name = name /\ Head(logs).project_id = project_id
                THEN Head(logs).quantity_used ELSE 0)

\* C19: every usage log request for an inventory item stores exactly one
\* log, and what the item's quantity loses is what the logs for it gain:
\* after N requests the quantity is the initial one minus the sum of their
\* quantity_used, with N logs stored.
C19_ConcurrentUsage ==
    [][ UsageLogged
        => /\ Len(usage') = Len(usage) + 1
           /\ usage'[Len(usage')].item_name = last'.req.item_name
           /\ usage'[Len(usage')].quantity_used = last'.req.quantity_used
           /\ \A i \in DOMAIN inventory :
                  inventory'[i].quantity
                      + LoggedFor(usage', inventory[i].name, inventory[i].project_id)
                  = inventory[i].quantity
                      + LoggedFor(usage, inventory[i].name, inventory[i].project_id)
      ]_vars

\* C20: logging usage u against an item of quantity q leaves the item with
\* q - u, below zero if u exceeds q, and every other item as it was; the
\* inventory listing answers with the stored quantities.
C20_UsageDecrements ==
    [][ /\ UsageLogged
            => LET id == find_inventory_item(last'.req.item_name, last'.arg)
               IN  inventory' = [inventory EXCEPT
                                     ![id].quantity = @ - last'.req.quantity_used]
        /\ (last'.op = "get_inventory" /\ last'.status = HTTP_200_OK)
            => last'.body.items
                   = {ItemOut(i)' : i \in {j \in DOMAIN inventory' :
                                               inventory'[j].project_id = last'.arg}}
      ]_vars

\* ------------------------------------------------------- receipts and images
\* A manager and a client, the manager's project, and expense and inventory
\* uploads in flight together; the amounts are whatever the form carries and
\* the writes to the uploads directory succeed or fail.
FormAmounts == {0, 25}
SaveReceipt ==
    \E p \in Procs, t \in Issued, a \in FormAmounts, i \in DrawnProjects, o \in WriteOutcomes :
        add_project_expense_save(p, t, a, i, o)
InsertExpense == \E p \in Procs : add_project_expense_insert(p)
SaveImage ==
    \E p \in Procs, t \in Issued, i \in DrawnProjects, f \in BOOLEAN, o \in WriteOutcomes :
        add_item_to_inventory_save(p, t, "cement", 10, i, f, o)
InsertItem == \E p \in Procs : add_item_to_inventory_insert(p)

NextUploads ==
    \/ RegisterAuth
    \/ LoginOnce
    \/ CreateOneProject
    \/ SaveReceipt
    \/ InsertExpense
    \/ SaveImage
    \/ InsertItem
SpecUploads == Init /\ [][NextUploads]_vars

\* The files that the stored expenses and inventory items refer to.
ReferencedFiles ==
    {StaticFile(expenses[e].receipt_url) : e \in DOMAIN expenses}
        \cup {StaticFile(inventory[i].image_url) :
                  i \in {j \in DOMAIN inventory : inventory[j].image_url # NoImage}}

\* C21: the file that a stored expense or inventory item refers to exists,
\* and it existed before the step that stored the record; no file is ever
\* removed.
C21_FileBeforeRecord ==
    [][ /\ ReferencedFiles' \subseteq uploads
        /\ uploads \subseteq uploads' ]_vars

\* An expense and an item with an image are stored, each with its file.
C21_Witness ==
    /\ expenses # <<>>
    /\ \E i \in DOMAIN inventory : inventory[i].image_url # NoImage
    /\ ReferencedFiles \subseteq uploads
    /\ Cardinality(ReferencedFiles) = 2

\* C23: every stored expense has an amount above zero, and an add-expense
\* request with an amount of zero or less is answered with a 4xx status and
\* stores neither an expense nor a receipt.
C23_PositiveAmounts ==
    /\ \A e \in DOMAIN expenses : expenses[e].amount > 0
    /\ \A p \in Procs :
           (inflight[p].op = "add_expense" /\ inflight[p].quantity <= 0)
               => inflight[p].found \notin {f.name : f \in uploads}

\* -------------------------------------------------- managing users, projects
\* A manager and a client, a project of the client, and a manager who
\* updates the project, changes roles and deletes users, while both read
\* the project with the tokens they logged in for.
ReadProjectManage == \E t \in Issued, i \in 1..MaxProjects : get_project_by_id(t, i)
ListProjectsManage == \E t \in Issued, c \in 0..AuthUsers : get_projects(t, "", c)
UpdateProject ==
    \E t \in Issued, i \in 1..MaxProjects, n \in {"", "tower"}, c \in 0..AuthUsers :
        update_project_details(t, i, n, c)
UpdateRole ==
    \E t \in Issued, u \in 1..AuthUsers, r \in UserRole : update_user_by_id(t, u, "", r, "")
DeleteUserManage == \E t \in Issued, u \in 1..AuthUsers : delete_user_by_id(t, u)

NextManage ==
    \/ RegisterAuth
    \/ LoginOnce
    \/ CreateOneProject
    \/ UpdateProject
    \/ UpdateRole
    \/ DeleteUserManage
    \/ ReadProjectManage
    \/ ListProjectsManage
SpecManage == Init /\ [][NextManage]_vars

\* C22: the client_id of every stored project is the id of a stored user
\* whose role is client.
C22_ClientReference ==
    \A i \in DOMAIN projects :
        /\ projects[i].client_id \in DOMAIN users
        /\ users[projects[i].client_id].role = "client"

\* C27: a manager's update of a stored project is answered 200 with the
\* updated project; the fields the request carries have the values it
\* carries, every other field and the progress reports are as before.
C27_ProjectUpdate ==
    [][ (/\ last'.op = "update_project"
         /\ last'.token \in Issued
         /\ last'.token.claims.role = "manager"
         /\ last'.arg \in DOMAIN projects)
        => /\ last'.status = HTTP_200_OK
           /\ last'.arg \in DOMAIN projects'
           /\ LET old == projects[last'.arg]
                  new == projects'[last'.arg]
              IN  /\ new.name = IF last'.req.name # "" THEN last'.req.name ELSE old.name
                  /\ new.client_id = IF last'.req.client_id # 0
                                     THEN last'.req.client_id ELSE old.client_id
                  /\ new.status = old.status
                  /\ new.created_by = old.created_by
                  /\ new.progress_reports = old.progress_reports
                  /\ last'.body = [kind |-> "project", id |-> last'.arg, name |-> new.name,
                                   client_id |-> new.client_id,
                                   progress_reports |-> new.progress_reports]
      ]_vars

\* ------------------------------------------------------- who sees a project
\* The roster's accounts and their logins, the manager's projects for either
\* client, and everyone listing the projects and reading them by id.
ListProjects ==
    \E t \in CallerTokens, c \in 0..MaxUsers : get_projects(t, "", c)
NextVisibility ==
    \/ RegisterRoster
    \/ LoginRoster
    \/ CreateProjectFor
    \/ ListProjects
    \/ ReadProject
SpecVisibility == Init /\ [][NextVisibility]_vars

\* The worker is assigned to the project.  No document of the store records
\* an assignment, and no endpoint makes one.
WorkerAssigned(project_id, user_id) == FALSE

\* The caller may see the project of the response item: a manager any, a
\* client their own, a worker those assigned to them.
MaySee(item) ==
    \/ CallerIs("manager")
    \/ CallerIs("client") /\ item.client_id = CallerId
    \/ CallerIs("worker") /\ WorkerAssigned(item.id, CallerId)

\* C25: the list of projects and the project by id answer a manager with
\* any project, a client only with projects whose client_id is the client's
\* own id, whatever filter was passed, and a worker only with projects the
\* worker is assigned to.
C25_ProjectVisibility ==
    /\ (last.op = "list_projects" /\ last.status = HTTP_200_OK)
           => /\ \A item \in last.body.items : MaySee(item)
              /\ (CallerIs("manager") /\ last.arg = 0)
                     => {item.id : item \in last.body.items} = DOMAIN projects
    /\ (last.op = "get_project" /\ last.status = HTTP_200_OK) => MaySee(last.body)

\* ------------------------------------------------------- deleting a project
\* A manager and a client, the manager's project with an expense and
\* inventory items, and the project's deletion.
AddReceipt ==
    \E t \in Issued, a \in Amounts, i \in 1..MaxProjects :
        add_project_expense(t, a, i, "saved")
NextCascade ==
    \/ RegisterAuth
    \/ LoginOnce
    \/ CreateOneProject
    \/ AddReceipt
    \/ AddItem
    \/ DeleteProject
SpecCascade == Init /\ [][NextCascade]_vars

\* C24: once a project's deletion has been answered with success, no
\* expense, inventory item, usage log or inventory request of the store
\* names the project.
C24_DeleteCascades ==
    (last.op = "delete_project" /\ last.status = HTTP_204_NO_CONTENT)
    => /\ last.arg \notin DOMAIN projects
       /\ \A e \in DOMAIN expenses : expenses[e].project_id # last.arg
       /\ \A i \in DOMAIN inventory : inventory[i].project_id # last.arg
       /\ \A k \in DOMAIN usage : usage[k].project_id # last.arg
       /\ \A k \in DOMAIN requests : requests[k].project_id # last.arg

\* C26: when the client of an expense's project verifies the stored expense
\* as approved or flagged, the answer is a confirmation, the stored status
\* is the requested one whatever it was before, and nothing else of the
\* expense changes.
C26_OwnerVerifies ==
    [][ (/\ last'.op = "verify"
         /\ last'.token \in Issued
         /\ last'.token.claims.role = "client"
         /\ last'.req.status \in {"approved", "flagged"}
         /\ last'.arg \in DOMAIN expenses
         /\ expenses[last'.arg].project_id \in DOMAIN projects
         /\ projects[expenses[last'.arg].project_id].client_id = last'.token.claims.user_id)
        => /\ last'.status = HTTP_200_OK
           /\ last'.body = [kind |-> "message", status |-> last'.req.status]
           /\ expenses' = [expenses EXCEPT ![last'.arg].verified = last'.req.status]
      ]_vars

\* The inventory items of a name and project.
ItemsNamed(item_name, project_id) ==
    {i \in DOMAIN inventory :
         inventory[i].name = item_name /\ inventory[i].project_id = project_id}

\* C28: a manager's usage log for a stored project is stored and answered
\* with the log; without an inventory item of that name and project no
\* quantity changes, and with several of them exactly one loses the used
\* amount and the others stay as they were.
C28_UsageWithoutItem ==
    [][ (/\ last'.op = "log_usage"
         /\ last'.token \in Issued
         /\ last'.token.claims.role = "manager"
         /\ last'.arg \in DOMAIN projects)
        => LET named == ItemsNamed(last'.req.item_name, last'.arg)
           IN  /\ last'.status = HTTP_200_OK
               /\ Len(usage') = Len(usage) + 1
               /\ usage'[Len(usage')].item_name = last'.req.item_name
               /\ IF named = {}
                  THEN inventory' = inventory
                  ELSE \E i \in named :
                           inventory' = [inventory EXCEPT
                                             ![i].quantity = @ - last'.req.quantity_used]
      ]_vars

\* C29: what a request with a valid token is answered for stored projects
\* is decided by the role and the id of the token and by the projects, the
\* same whatever the caller's stored user record has become: a client of
\* another project is denied and everyone else is let in.
C29_TokenDecides ==
    [][ /\ (/\ last'.op = "get_project"
            /\ last'.token \in Issued
            /\ last'.arg \in DOMAIN projects)
           => last'.status
                  = IF /\ last'.token.claims.role = "client"
                       /\ projects[last'.arg].client_id # last'.token.claims.user_id
                    THEN HTTP_403_FORBIDDEN ELSE HTTP_200_OK
        /\ (last'.op = "list_projects" /\ last'.token \in Issued)
           => /\ last'.status = HTTP_200_OK
              /\ {item.id : item \in last'.body.items}
                     = {i \in DOMAIN projects :
                            IF last'.token.claims.role = "client"
                            THEN projects[i].client_id = last'.token.claims.user_id
                            ELSE last'.arg # 0 => projects[i].client_id = last'.arg}
      ]_vars

====
